---- MODULE Spec2Model ----
(***************************************************************************)
(* Lifecycle of two Terraform resources of the AWS provider:               *)
(*   aws_s3_directory_bucket       (plugin framework, src/unnamed/part_000)*)
(*   aws_appflow_connector_profile (plugin SDK v2,                         *)
(*                  src/internal/service/appflow/connector_profile.go)     *)
(* The remote control plane is an adversary: every remote call returns any *)
(* of the answers the handler distinguishes.  A handler is modelled as the *)
(* sequence of its remote calls; the code between two calls is part of the *)
(* action that receives the answer of the first one.                       *)
(***************************************************************************)
EXTENDS Integers, Sequences, FiniteSets, TLC

\* ------------------------------------------------------------------------
\* Values of the plugin type systems
\* ------------------------------------------------------------------------
\* a null attribute value (absent from the configuration or the state)
Null == "NULL"
\* a value that is not known at plan time
Unknown == "UNKNOWN"
\* no managed state: framework State.RemoveResource / SDK d.SetId("")
NoState == [absent |-> TRUE]

\* ------------------------------------------------------------------------
\* Bucket names and their spelling
\* ------------------------------------------------------------------------
Digits == {"0", "1", "2", "3", "4", "5", "6", "7", "8", "9"}
Lower == {"a", "b", "c", "d", "e", "f", "g", "h", "i", "j", "k", "l", "m",
          "n", "o", "p", "q", "r", "s", "t", "u", "v", "w", "x", "y", "z"}

BucketNames == {"b--usw2-az2--x-s3",
                "c.d--a-1--x-s3",
                "my-bucket",
                "b--usw2--x-s3",
                "B--a-1--x-s3",
                "b--a-1--x-s3x",
                "--a-1--x-s3"}

\* the characters of a bucket name
Chars(name) ==
  CASE name = "b--usw2-az2--x-s3" ->  \* the example of the source comment
         <<"b", "-", "-", "u", "s", "w", "2", "-", "a", "z", "2", "-", "-", "x", "-", "s", "3">>
    [] name = "c.d--a-1--x-s3" ->  \* a second directory bucket name
         <<"c", ".", "d", "-", "-", "a", "-", "1", "-", "-", "x", "-", "s", "3">>
    [] name = "my-bucket" ->  \* a general purpose bucket name
         <<"m", "y", "-", "b", "u", "c", "k", "e", "t">>
    [] name = "b--usw2--x-s3" ->  \* the zone id has no hyphen
         <<"b", "-", "-", "u", "s", "w", "2", "-", "-", "x", "-", "s", "3">>
    [] name = "B--a-1--x-s3" ->  \* an upper case letter
         <<"B", "-", "-", "a", "-", "1", "-", "-", "x", "-", "s", "3">>
    [] name = "b--a-1--x-s3x" ->  \* a character after the suffix
         <<"b", "-", "-", "a", "-", "1", "-", "-", "x", "-", "s", "3", "x">>
    [] name = "--a-1--x-s3" ->  \* nothing before the first separator
         <<"-", "-", "a", "-", "1", "-", "-", "x", "-", "s", "3">>

\* ------------------------------------------------------------------------
\* Regular expressions: a pattern is a tree of character classes,
\* concatenations and one-or-more repetitions; MatchEnds gives the positions
\* at which a match that starts at a position of S can end.
\* ------------------------------------------------------------------------
Class(cs) == [t |-> "class", cs |-> cs]
Lit(c) == [t |-> "class", cs |-> {c}]
Cat(rs) == [t |-> "cat", rs |-> rs]
Plus(r) == [t |-> "plus", r |-> r]

RECURSIVE MatchEnds(_, _, _)
RECURSIVE PlusEnds(_, _, _)
MatchEnds(re, s, S) ==
  CASE re.t = "class" -> {i + 1 : i \in {j \in S : j < Len(s) /\ s[j + 1] \in re.cs}}
    [] re.t = "cat" -> IF re.rs = <<>> THEN S
                       ELSE MatchEnds(Cat(Tail(re.rs)), s, MatchEnds(Head(re.rs), s, S))
    [] re.t = "plus" -> PlusEnds(re.r, s, MatchEnds(re.r, s, S))

PlusEnds(r, s, E) ==
  LET E2 == E \cup MatchEnds(r, s, E)
  IN IF E2 = E THEN E ELSE PlusEnds(r, s, E2)

\* regexp.MatchString of a pattern anchored with ^ and $
MatchString(re, s) == Len(s) \in MatchEnds(re, s, {0})

\* the pattern with a zone id that needs no hyphen:
\* ^(?:[0-9a-z.-]+)--(?:[0-9a-za-z]+)--x-s3$
directoryBucketNameRegexPlainZone ==
  Cat(<<Plus(Class(Digits \cup Lower \cup {".", "-"})),
        Lit("-"), Lit("-"),
        Plus(Class(Digits \cup Lower \cup Lower)),
        Lit("-"), Lit("-"), Lit("x"), Lit("-"), Lit("s"), Lit("3")>>)

\* ^(?:[0-9a-z.-]+)--(?:[0-9a-za-z]+(?:-[0-9a-za-z]+)+)--x-s3$
directoryBucketNameRegex ==
  Cat(<<Plus(Class(Digits \cup Lower \cup {".", "-"})),
        Lit("-"), Lit("-"),
        Plus(Class(Digits \cup Lower \cup Lower)),
        Plus(Cat(<<Lit("-"), Plus(Class(Digits \cup Lower \cup Lower))>>)),
        Lit("-"), Lit("-"), Lit("x"), Lit("-"), Lit("s"), Lit("3")>>)

\* ------------------------------------------------------------------------
\* S3 directory bucket: schema and plan
\* ------------------------------------------------------------------------
\* awstypes.DataRedundancy, awstypes.LocationType, awstypes.BucketType
SingleAvailabilityZone == "SingleAvailabilityZone"
SingleLocalZone == "SingleLocalZone"
AvailabilityZone == "AvailabilityZone"
LocalZone == "LocalZone"
Directory == "Directory"
DataRedundancies == {SingleAvailabilityZone, SingleLocalZone}
LocationTypes == {AvailabilityZone, LocalZone}
LocationNames == {"usw2-az2", "usw2-lz1"}

\* arn returns the ARN of the specified bucket
arn(bucket) ==
  CASE bucket = "b--usw2-az2--x-s3" -> "arn:aws:s3express:bucket/b--usw2-az2--x-s3"
    [] bucket = "c.d--a-1--x-s3" -> "arn:aws:s3express:bucket/c.d--a-1--x-s3"
    [] bucket = "my-bucket" -> "arn:aws:s3express:bucket/my-bucket"
    [] bucket = "b--usw2--x-s3" -> "arn:aws:s3express:bucket/b--usw2--x-s3"
    [] bucket = "B--a-1--x-s3" -> "arn:aws:s3express:bucket/B--a-1--x-s3"
    [] bucket = "b--a-1--x-s3x" -> "arn:aws:s3express:bucket/b--a-1--x-s3x"
    [] bucket = "--a-1--x-s3" -> "arn:aws:s3express:bucket/--a-1--x-s3"

\* the attributes of the schema (the location block holds name and type)
BucketAttrs == {"arn", "bucket", "data_redundancy", "force_destroy", "id",
                "type", "location.name", "location.type"}

\* the plan modifiers each attribute declares, in declared order
BucketPlanModifiers ==
  [a \in BucketAttrs |->
     CASE a = "bucket" -> <<"RequiresReplace">>
       [] a = "data_redundancy" -> <<"RequiresReplace", "directoryBucketDataRedundancyPlanModifier">>
       [] a = "type" -> <<"RequiresReplace">>
       [] a = "location.name" -> <<"RequiresReplace">>
       [] a = "location.type" -> <<"RequiresReplace">>
       [] OTHER -> <<>>]

\* the attributes of the bucket schema that are declared Required, Optional
\* and Computed (arn and id are the computed attributes of the framework)
BucketRequired == {"bucket", "location.name"}
BucketOptional == {"data_redundancy", "force_destroy", "type", "location.type"}
\* a schema that declares every attribute Computed
BucketComputedAll == BucketAttrs
BucketComputed == {"arn", "id", "data_redundancy", "force_destroy", "type", "location.type"}

BucketSchema ==
  [a \in BucketAttrs |->
     [Required |-> a \in BucketRequired,
      Optional |-> a \in BucketOptional,
      Computed |-> a \in BucketComputed]]

\* the validator of the bucket attribute, stringvalidator.RegexMatches:
\* the name matches the pattern (a value that is not known yet is not
\* validated); the names that match are computed once
MatchingBucketNames == {n \in BucketNames : MatchString(directoryBucketNameRegex, Chars(n))}

BucketNameValid(bucket) ==
  bucket = Unknown \/ bucket \in MatchingBucketNames

\* the validators of the location block without listvalidator.IsRequired
LocationBlockSizeAtMostOne(locations) ==
  locations <= 1

\* the validators of the location block: listvalidator.SizeAtMost(1) and
\* listvalidator.IsRequired()
LocationBlockValid(locations) ==
  locations <= 1 /\ locations # 0

\* validation of a bucket configuration
BucketConfigValid(cfg) ==
  BucketNameValid(cfg.bucket) /\ LocationBlockValid(cfg.locations)

\* a default that does not look at the location type
defaultDirectoryBucketDataRedundancyFixed(locationType) ==
  SingleAvailabilityZone

defaultDirectoryBucketDataRedundancy(locationType) ==
  CASE locationType = LocalZone -> SingleLocalZone
    [] OTHER -> SingleAvailabilityZone

\* PlanModifyString without the check of a known planned value
PlanModifyStringAlways(planValue, plan) ==
  defaultDirectoryBucketDataRedundancy(
    IF plan["location.type"] \in {Null, Unknown} THEN "" ELSE plan["location.type"])

\* directoryBucketDataRedundancyPlanModifier.PlanModifyString: the new planned
\* value of data_redundancy, given the planned value and the whole plan.
\* locationInfo.Type.ValueEnum() of a null or unknown type is the empty string.
PlanModifyString(planValue, plan) ==
  IF planValue # Unknown
  THEN planValue
  ELSE defaultDirectoryBucketDataRedundancy(
         IF plan["location.type"] \in {Null, Unknown} THEN "" ELSE plan["location.type"])

\* a configuration: what the user wrote (Null: omitted, Unknown: an
\* expression whose value is only known after apply)
\* locations is the number of location blocks; location_name and
\* location_type are those of the first block
MaxLocations == 2
BucketConfigs ==
  [bucket : BucketNames,
   data_redundancy : DataRedundancies \cup {Null},
   force_destroy : {"false", "true"},
   locations : {1},
   location_name : LocationNames,
   location_type : LocationTypes \cup {Unknown}]
  \cup [bucket : BucketNames,
        data_redundancy : {Null},
        force_destroy : {"false"},
        locations : {0},
        location_name : {Null},
        location_type : {Null}]
  \cup [bucket : BucketNames,
        data_redundancy : {Null},
        force_destroy : {"false"},
        locations : 2..MaxLocations,
        location_name : LocationNames,
        location_type : {AvailabilityZone}]

\* the proposed new state when data_redundancy is declared optional and not
\* computed: an omitted data_redundancy is null
BucketProposedNotComputed(cfg, prior) ==
  [a \in BucketAttrs |->
     CASE a = "bucket" -> cfg.bucket
       [] a = "force_destroy" -> cfg.force_destroy
       [] a = "type" -> Directory
       [] a = "location.name" -> cfg.location_name
       [] a = "location.type" -> cfg.location_type
       [] a = "data_redundancy" -> cfg.data_redundancy
       [] OTHER -> IF prior = NoState THEN Null ELSE prior[a]]

\* the proposed new state: configured values, schema defaults for omitted
\* attributes that declare one (type; force_destroy and location.type are
\* given with their defaults applied), prior values for omitted computed attributes
BucketProposed(cfg, prior) ==
  [a \in BucketAttrs |->
     CASE a = "bucket" -> cfg.bucket
       [] a = "force_destroy" -> cfg.force_destroy
       [] a = "type" -> Directory
       [] a = "location.name" -> cfg.location_name
       [] a = "location.type" -> cfg.location_type
       [] a = "data_redundancy" ->
            IF cfg.data_redundancy # Null THEN cfg.data_redundancy
            ELSE IF prior = NoState THEN Null ELSE prior[a]
       [] OTHER -> IF prior = NoState THEN Null ELSE prior[a]]

\* computed attributes that the configuration leaves null
BucketComputedNull(cfg) ==
  {"arn", "id"} \cup (IF cfg.data_redundancy = Null THEN {"data_redundancy"} ELSE {})

\* when the proposed state differs from the prior one, every computed
\* attribute without a configured value becomes unknown
BucketMarked(cfg, prior) ==
  LET proposed == BucketProposed(cfg, prior)
  IN IF prior = NoState \/ proposed # prior
     THEN [a \in BucketAttrs |->
             IF a \in BucketComputedNull(cfg) THEN Unknown ELSE proposed[a]]
     ELSE proposed

\* stringplanmodifier.RequiresReplace: not on creation, not when the planned
\* value equals the prior one
RequiresReplace(planValue, prior, a) ==
  /\ prior # NoState
  /\ planValue # prior[a]

\* one attribute's modifiers applied in order to r = [plan, rr]: plan is the
\* plan so far, rr the attributes marked requires-replacement
RECURSIVE RunModifiers(_, _, _, _)
RunModifiers(mods, a, prior, r) ==
  IF mods = <<>> THEN r
  ELSE LET m == Head(mods)
           r2 == CASE m = "RequiresReplace" ->
                        IF RequiresReplace(r.plan[a], prior, a)
                        THEN [r EXCEPT !.rr = @ \cup {a}] ELSE r
                   [] m = "directoryBucketDataRedundancyPlanModifier" ->
                        [r EXCEPT !.plan[a] = PlanModifyString(r.plan[a], r.plan)]
       IN RunModifiers(Tail(mods), a, prior, r2)

\* the attributes in the order their modifiers run
BucketAttrOrder == <<"arn", "bucket", "data_redundancy", "force_destroy", "id",
                     "type", "location.name", "location.type">>

RECURSIVE RunAttrs(_, _, _)
RunAttrs(attrs, prior, r) ==
  IF attrs = <<>> THEN r
  ELSE RunAttrs(Tail(attrs), prior,
                RunModifiers(BucketPlanModifiers[Head(attrs)], Head(attrs), prior, r))

\* the plan of a bucket: validation, then, for a valid configuration, the
\* modifiers
\*   valid: the configuration passed validation
\*   plan:  the planned value of every attribute (the proposed state when
\*          the configuration is not valid: no modifier has run)
\*   rr:    the attributes marked requires-replacement
BucketPlan(cfg, prior) ==
  LET valid == BucketConfigValid(cfg)
      r == IF valid
           THEN RunAttrs(BucketAttrOrder, prior, [plan |-> BucketMarked(cfg, prior), rr |-> {}])
           ELSE [plan |-> BucketProposed(cfg, prior), rr |-> {}]
  IN [res |-> "bucket", cfg |-> cfg, prior |-> prior,
      valid |-> valid, plan |-> r.plan, rr |-> r.rr]

\* ------------------------------------------------------------------------
\* AppFlow connector profile: schema and diff
\* ------------------------------------------------------------------------
ProfileNames == {"p1", "p2"}
ConnectionModes == {"Public", "Private"}
ConnectorTypes == {"Salesforce", "Redshift"}
\* an unset string of the SDK is the empty string
ConnectorLabels == {"", "label"}
KmsArns == {"", "arn:aws:kms:key/1"}
\* connector_profile_config: the credentials block and the properties block
Credentials == {"credentials-1", "credentials-2"}
Properties == {"properties-1"}

ProfileAttrs == {"arn", "connector_label", "connection_mode", "credentials",
                 "properties", "connector_type", "credentials_arn", "id",
                 "kms_arn", "name"}

\* the schema with a name that is not ForceNew
ProfileSchemaNameInPlace ==
  [a \in ProfileAttrs \ {"id"} |->
     CASE a = "arn" ->
            [Required |-> FALSE, Optional |-> FALSE, Computed |-> TRUE, ForceNew |-> FALSE]
       [] a = "connector_label" ->
            [Required |-> FALSE, Optional |-> TRUE, Computed |-> FALSE, ForceNew |-> TRUE]
       [] a = "connector_type" ->
            [Required |-> TRUE, Optional |-> FALSE, Computed |-> FALSE, ForceNew |-> TRUE]
       [] a = "credentials_arn" ->
            [Required |-> FALSE, Optional |-> FALSE, Computed |-> TRUE, ForceNew |-> FALSE]
       [] a = "kms_arn" ->
            [Required |-> FALSE, Optional |-> TRUE, Computed |-> TRUE, ForceNew |-> TRUE]
       [] OTHER ->
            [Required |-> TRUE, Optional |-> FALSE, Computed |-> FALSE, ForceNew |-> FALSE]]

\* the flags of the top-level attributes; credentials and properties are
\* the two blocks of the required connector_profile_config list
ProfileSchema ==
  [a \in ProfileAttrs \ {"id"} |->
     CASE a = "arn" ->
            [Required |-> FALSE, Optional |-> FALSE, Computed |-> TRUE, ForceNew |-> FALSE]
       [] a = "connector_label" ->
            [Required |-> FALSE, Optional |-> TRUE, Computed |-> FALSE, ForceNew |-> TRUE]
       [] a = "connection_mode" ->
            [Required |-> TRUE, Optional |-> FALSE, Computed |-> FALSE, ForceNew |-> FALSE]
       [] a = "credentials" ->
            [Required |-> TRUE, Optional |-> FALSE, Computed |-> FALSE, ForceNew |-> FALSE]
       [] a = "properties" ->
            [Required |-> TRUE, Optional |-> FALSE, Computed |-> FALSE, ForceNew |-> FALSE]
       [] a = "connector_type" ->
            [Required |-> TRUE, Optional |-> FALSE, Computed |-> FALSE, ForceNew |-> TRUE]
       [] a = "credentials_arn" ->
            [Required |-> FALSE, Optional |-> FALSE, Computed |-> TRUE, ForceNew |-> FALSE]
       [] a = "kms_arn" ->
            [Required |-> FALSE, Optional |-> TRUE, Computed |-> TRUE, ForceNew |-> TRUE]
       [] a = "name" ->
            [Required |-> TRUE, Optional |-> FALSE, Computed |-> FALSE, ForceNew |-> TRUE]]

\* the attributes of the redshift block of connector_profile_properties
RedshiftRequired == {"redshift.bucket_name", "redshift.role_arn"}
RedshiftOptional == {"redshift.bucket_prefix", "redshift.cluster_identifier",
                     "redshift.data_api_role_arn", "redshift.database_name",
                     "redshift.database_url"}
RedshiftSchema ==
  [a \in RedshiftRequired \cup RedshiftOptional |->
     [Required |-> a \in RedshiftRequired,
      Optional |-> a \in RedshiftOptional,
      Computed |-> FALSE]]

ProfileConfigs ==
  [name : ProfileNames,
   connection_mode : ConnectionModes,
   connector_label : ConnectorLabels,
   connector_type : ConnectorTypes,
   kms_arn : KmsArns,
   credentials : Credentials,
   properties : Properties]

\* the planned value of an attribute: the configured value; the prior value
\* for a computed attribute the configuration leaves unset (unknown when
\* there is no prior state)
ProfilePlanned(cfg, prior) ==
  [a \in ProfileAttrs |->
     IF a \in {"arn", "credentials_arn", "id"}
     THEN IF prior = NoState THEN Unknown ELSE prior[a]
     ELSE IF ProfileSchema[a].Computed /\ cfg[a] = ""
          THEN IF prior = NoState THEN Unknown ELSE prior[a]
          ELSE cfg[a]]

\* the diff of a connector profile; rr: the ForceNew attributes whose
\* planned value differs from the prior one
ProfilePlan(cfg, prior) ==
  LET planned == ProfilePlanned(cfg, prior)
  IN [res |-> "profile", cfg |-> cfg, prior |-> prior, valid |-> TRUE,
      plan |-> planned,
      rr |-> IF prior = NoState THEN {}
             ELSE {a \in ProfileAttrs \ {"id"} :
                     ProfileSchema[a].ForceNew /\ planned[a] # prior[a]}]

NoPlan == [res |-> "none"]

\* ------------------------------------------------------------------------
\* State of one managed object and of the operation that runs on it
\* ------------------------------------------------------------------------
VARIABLES
  res,    \* the resource type of the managed object: "bucket" or "profile"
  state,  \* its managed state (during an operation of the connector
          \* profile: the ResourceData d), NoState when Absent
  pc,     \* "idle", "planned", the remote call that is in flight, or "done"
          \* when the handler has returned
  op,     \* the operation the caller invoked: Plan, Create, Read, ...
  plan,   \* the plan that is being applied, NoPlan when there is none
  pre,    \* the managed state when the operation started
  calls,  \* the remote calls of the operation: calls and their answers
  diags,  \* the diagnostics of the operation
  peer    \* the object of the executor that is not running, with the
          \* operation that executor is in: NoPeer when there is one executor

vars == <<res, state, pc, op, plan, pre, calls, diags, peer>>

NoPeer == [who |-> "none"]

Call(api, arg) == [ev |-> "call", api |-> api, arg |-> arg, ans |-> "-"]
\* a diagnostic that does not name the object
DiagWithoutId(severity, doing, id, detail) ==
  [severity |-> severity, doing |-> doing, id |-> "", detail |-> detail]

\* an error or warning diagnostic: "<doing> <resource type> (<id>): <detail>"
Diag(severity, doing, id, detail) ==
  [severity |-> severity, doing |-> doing, id |-> id, detail |-> detail]
HasError(ds) == \E i \in 1..Len(ds) : ds[i].severity = "error"

\* the error answers of the remote calls
BucketErrors == {"NoSuchBucket", "BucketNotEmpty", "AccessDenied", "Canceled"}
ProfileErrors == {"ResourceNotFoundException", "InternalServerException", "Canceled"}

Init ==
  /\ res \in {"bucket", "profile"}
  /\ state = NoState
  /\ pc = "idle"
  /\ op = "none"
  /\ plan = NoPlan
  /\ pre = NoState
  /\ calls = <<>>
  /\ diags = <<>>
  /\ peer = NoPeer

\* the handler returns to the caller
Return(newState, newDiags) ==
  /\ state' = newState
  /\ diags' = newDiags
  /\ pc' = "done"
  /\ UNCHANGED <<plan, pre>>

\* the handler starts: it issues its first remote call
Start(operation, api, arg) ==
  /\ op' = operation
  /\ pc' = api
  /\ pre' = state
  /\ calls' = <<Call(api, arg)>>
  /\ diags' = <<>>

\* the handler goes on: it takes the answer of the call in flight and
\* issues the next remote call
Continue(answer, api, arg) ==
  /\ calls' = calls \o <<[calls[Len(calls)] EXCEPT !.ev = "ret", !.ans = answer], Call(api, arg)>>
  /\ UNCHANGED <<diags, plan, pre>>

\* the handler takes the answer of the call in flight
Answer(answer) ==
  calls' = Append(calls, [calls[Len(calls)] EXCEPT !.ev = "ret", !.ans = answer])

\* ------------------------------------------------------------------------
\* S3 directory bucket
\* ------------------------------------------------------------------------
\* validation and planning of a configuration against the current state
directoryBucketResourcePlan ==
  \E cfg \in BucketConfigs :
    /\ res = "bucket"
    /\ pc = "idle"
    /\ plan' = BucketPlan(cfg, state)
    /\ pc' = "planned"
    /\ op' = "Plan"
    /\ calls' = <<>>
    /\ diags' =
         (IF BucketNameValid(cfg.bucket) THEN <<>>
          ELSE <<Diag("error", "validating", cfg.bucket, "must be in the format [bucket_name]--[azid]--x-s3")>>)
         \o (IF LocationBlockValid(cfg.locations) THEN <<>>
             ELSE <<Diag("error", "validating", cfg.bucket, "location")>>)
    /\ UNCHANGED <<peer, res, state, pre>>

\* Create, up to the CreateBucket call: the plan is valid, it is the plan of
\* an object that does not exist yet, and every configured value is known
directoryBucketResourceCreate ==
  /\ pc = "planned"
  /\ plan.res = "bucket"
  /\ plan.valid
  /\ plan.prior = NoState
  /\ plan.cfg.location_type # Unknown
  /\ Start("Create", "CreateBucket", plan.plan["bucket"])
  /\ UNCHANGED <<peer, res, state, plan>>

\* Create that saves the ARN as the ID
directoryBucketResourceCreateReturnIdIsArn ==
  /\ pc = "CreateBucket"
  /\ \E err \in {""} \cup (BucketErrors \ {"NoSuchBucket", "BucketNotEmpty"}) :
    /\ Answer(err)
    /\ LET bucket == plan.plan["bucket"]
       IN /\ IF err # ""
             THEN Return(state, Append(diags, Diag("error", "creating", bucket, err)))
             ELSE Return([plan.plan EXCEPT !["arn"] = arn(bucket), !["id"] = arn(bucket)], diags)
    /\ UNCHANGED <<peer, res, op>>

\* Create that saves the plan as it is, without ARN and ID
directoryBucketResourceCreateReturnPlanOnly ==
  /\ pc = "CreateBucket"
  /\ \E err \in {""} \cup (BucketErrors \ {"NoSuchBucket", "BucketNotEmpty"}) :
    /\ Answer(err)
    /\ LET bucket == plan.plan["bucket"]
       IN /\ IF err # ""
             THEN Return(state, Append(diags, Diag("error", "creating", bucket, err)))
             ELSE Return(plan.plan, diags)
    /\ UNCHANGED <<peer, res, op>>

\* Create, from the answer of CreateBucket
directoryBucketResourceCreateReturn ==
  /\ pc = "CreateBucket"
  /\ \E err \in {""} \cup (BucketErrors \ {"NoSuchBucket", "BucketNotEmpty"}) :
    /\ Answer(err)
    /\ LET bucket == plan.plan["bucket"]
       IN /\ IF err # ""
             THEN Return(state, Append(diags, Diag("error", "creating", bucket, err)))
             ELSE Return([plan.plan EXCEPT !["arn"] = arn(bucket), !["id"] = bucket], diags)
    /\ UNCHANGED <<peer, res, op>>

\* Read, up to the findBucket call
directoryBucketResourceRead ==
  /\ res = "bucket"
  /\ pc = "idle"
  /\ state # NoState
  /\ Start("Read", "findBucket", state["id"])
  /\ UNCHANGED <<peer, res, state, plan>>

\* what findBucket returns: an error, or the location of the bucket
FindBucketResults ==
  [err : {"NotFound", "AccessDenied", "Canceled"}, BucketLocationName : {Null}, BucketLocationType : {Null}]
  \cup [err : {""}, BucketLocationName : LocationNames, BucketLocationType : LocationTypes]

\* Read, from the answer of findBucket
directoryBucketResourceReadReturn ==
  /\ pc = "findBucket"
  /\ \E output \in FindBucketResults :
    /\ Answer(output.err)
    /\ IF output.err = "NotFound"
       THEN Return(NoState, Append(diags, Diag("warning", "reading", state["id"], output.err)))
       ELSE IF output.err # ""
       THEN Return(state, Append(diags, Diag("error", "reading", state["id"], output.err)))
       ELSE Return([state EXCEPT
                      !["bucket"] = state["id"],
                      !["arn"] = arn(state["id"]),
                      !["data_redundancy"] = defaultDirectoryBucketDataRedundancy(output.BucketLocationType),
                      !["location.name"] = output.BucketLocationName,
                      !["location.type"] = output.BucketLocationType,
                      !["type"] = Directory],
                   diags)
    /\ UNCHANGED <<peer, res, op>>

\* import by id (framework.WithImportByID): the state holds the id alone,
\* and the caller reads the object at once
directoryBucketResourceImport ==
  /\ res = "bucket"
  /\ pc = "idle"
  /\ state = NoState
  /\ \E id \in MatchingBucketNames :
       /\ state' = [a \in BucketAttrs |-> IF a = "id" THEN id ELSE Null]
       /\ op' = "Import"
       /\ pc' = "findBucket"
       /\ pre' = NoState
       /\ calls' = <<Call("findBucket", id)>>
       /\ diags' = <<>>
  /\ UNCHANGED <<peer, res, plan>>

\* Delete, up to the first DeleteBucket call; the caller destroys the
\* object, or replaces it because its plan requires replacement
directoryBucketResourceDelete ==
  /\ res = "bucket"
  /\ state # NoState
  /\ \/ pc = "idle"
     \/ pc = "planned" /\ plan.valid /\ plan.rr # {}
  /\ Start("Delete", "DeleteBucket", state["id"])
  /\ plan' = NoPlan
  /\ UNCHANGED <<peer, res, state>>

\* EmptyAndRetry without the check of force_destroy
EmptyAndRetryAlways(err, forceDestroy) ==
  err = "BucketNotEmpty"

\* Delete empties the bucket and tries again: the first DeleteBucket
\* answered BucketNotEmpty and force_destroy is set
EmptyAndRetry(err, forceDestroy) ==
  err = "BucketNotEmpty" /\ forceDestroy = "true"

\* DeleteFinish without the check of NoSuchBucket
DeleteFinishNotFoundFails(err) ==
  IF err = ""
  THEN Return(NoState, diags)
  ELSE Return(state, Append(diags, Diag("error", "deleting", state["id"], err)))

\* DeleteFinish that drops the object from the state whatever the answer
DeleteFinishAlwaysRemoves(err) ==
  IF err = "NoSuchBucket" \/ err = ""
  THEN Return(NoState, diags)
  ELSE Return(NoState, Append(diags, Diag("error", "deleting", state["id"], err)))

\* Delete, from its last error on: NoSuchBucket is a success; when Delete
\* returns without an error the framework removes the object from the state
DeleteFinish(err) ==
  IF err = "NoSuchBucket" \/ err = ""
  THEN Return(NoState, diags)
  ELSE Return(state, Append(diags, Diag("error", "deleting", state["id"], err)))

\* Delete, from the answer of the first DeleteBucket
directoryBucketResourceDeleteReturn ==
  /\ pc = "DeleteBucket"
  /\ \E err \in {""} \cup BucketErrors :
    /\ IF EmptyAndRetry(err, state["force_destroy"])
       THEN /\ pc' = "emptyDirectoryBucket"
            /\ Continue(err, "emptyDirectoryBucket", state["id"])
            /\ UNCHANGED state
       ELSE /\ Answer(err)
            /\ DeleteFinish(err)
    /\ UNCHANGED <<peer, res, op>>

\* Delete that calls DeleteBucket again whatever emptyDirectoryBucket answered
directoryBucketResourceDeleteEmptiedGoesOn ==
  /\ pc = "emptyDirectoryBucket"
  /\ \E err \in {"", "AccessDenied", "Canceled"} :
    /\ Continue(err, "DeleteBucket", state["id"])
    /\ pc' = "DeleteBucket2"
    /\ UNCHANGED state
    /\ UNCHANGED <<peer, res, op>>

\* Delete, from the answer of emptyDirectoryBucket
directoryBucketResourceDeleteEmptied ==
  /\ pc = "emptyDirectoryBucket"
  /\ \E err \in {"", "AccessDenied", "Canceled"} :
    /\ IF err # ""
       THEN /\ Answer(err)
            /\ Return(state, Append(diags, Diag("error", "emptying", state["id"], err)))
       ELSE /\ Continue(err, "DeleteBucket", state["id"])
            /\ pc' = "DeleteBucket2"
            /\ UNCHANGED state
    /\ UNCHANGED <<peer, res, op>>

\* the second DeleteBucket with a loop: BucketNotEmpty empties the bucket
\* and tries again
directoryBucketResourceDeleteRetriedAgain ==
  /\ pc = "DeleteBucket2"
  /\ \E err \in {""} \cup BucketErrors :
    /\ IF EmptyAndRetry(err, state["force_destroy"])
       THEN /\ pc' = "emptyDirectoryBucket"
            /\ Continue(err, "emptyDirectoryBucket", state["id"])
            /\ UNCHANGED state
       ELSE /\ Answer(err)
            /\ DeleteFinish(err)
    /\ UNCHANGED <<peer, res, op>>

\* the second DeleteBucket whose error is dropped
directoryBucketResourceDeleteRetriedNoError ==
  /\ pc = "DeleteBucket2"
  /\ \E err \in {""} \cup BucketErrors :
    /\ Answer(err)
    /\ Return(NoState, diags)
    /\ UNCHANGED <<peer, res, op>>

\* Delete, from the answer of the second DeleteBucket
directoryBucketResourceDeleteRetried ==
  /\ pc = "DeleteBucket2"
  /\ \E err \in {""} \cup BucketErrors :
    /\ Answer(err)
    /\ DeleteFinish(err)
    /\ UNCHANGED <<peer, res, op>>

\* Release with one collection of diagnostics for all executors
ReleaseSharedDiags ==
  /\ pc \in {"planned", "done"}
  /\ pc' = "idle"
  /\ op' = "none"
  /\ plan' = NoPlan
  /\ pre' = NoState
  /\ calls' = <<>>
  /\ diags' = <<>>
  /\ peer' = IF peer = NoPeer THEN peer ELSE [peer EXCEPT !.diags = <<>>]
  /\ state' = IF op = "Import" /\ HasError(diags) THEN NoState ELSE state
  /\ UNCHANGED res

\* the caller takes the result of the operation, or gives up a plan (it
\* is invalid, or the caller applies nothing); it keeps nothing of an
\* import that returned an error
Release ==
  /\ pc \in {"planned", "done"}
  /\ pc' = "idle"
  /\ op' = "none"
  /\ plan' = NoPlan
  /\ pre' = NoState
  /\ calls' = <<>>
  /\ diags' = <<>>
  /\ state' = IF op = "Import" /\ HasError(diags) THEN NoState ELSE state
  /\ UNCHANGED <<peer, res>>

\* ------------------------------------------------------------------------
\* AppFlow connector profile
\* ------------------------------------------------------------------------
profileArn(name) ==
  CASE name = "p1" -> "arn:aws:appflow:connectorprofile/p1"
    [] name = "p2" -> "arn:aws:appflow:connectorprofile/p2"
    [] OTHER -> "arn:aws:appflow:connectorprofile/"

\* the ConnectorProfile descriptions the remote system may return for a name
ConnectorProfileDetails(name) ==
  [ConnectorProfileArn : {profileArn(name)},
   ConnectionMode : ConnectionModes,
   ConnectorLabel : ConnectorLabels,
   ConnectorProfileName : {name},
   ConnectorProfileProperties : Properties,
   ConnectorType : ConnectorTypes,
   CredentialsArn : {"arn:aws:appflow:credentials/1"}]

\* the answers of DescribeConnectorProfiles: an error, or an output with
\* n descriptions of which first is the first
DescribeAnswers(name) ==
  [err : ProfileErrors, n : {0}, first : {Null}]
  \cup [err : {""}, n : {0}, first : {Null}]
  \cup [err : {""}, n : {1, 2}, first : ConnectorProfileDetails(name)]

\* the name of an answer in the record of the calls
DescribeAnswerName(answer) ==
  IF answer.err # "" THEN answer.err
  ELSE IF answer.n = 0 THEN "EmptyOutput"
  ELSE IF answer.n > 1 THEN "TwoDescriptions"
  ELSE ""

\* findConnectorProfileByName without the check of an empty output: every
\* output that does not hold exactly one description holds too many
findConnectorProfileByNameNoEmptyCheck(answer) ==
  IF answer.err # "" THEN [connectorProfile |-> Null, err |-> answer.err]
  ELSE IF answer.n # 1 THEN [connectorProfile |-> Null, err |-> "TooManyResultsError"]
  ELSE [connectorProfile |-> answer.first, err |-> ""]

\* findConnectorProfileByName, from the answer of DescribeConnectorProfiles:
\* the error of the call; EmptyResultError for an output without description;
\* tfresource.AssertSingleValueResult gives TooManyResultsError for more than
\* one description and the description when there is exactly one
findConnectorProfileByName(answer) ==
  IF answer.err # "" THEN [connectorProfile |-> Null, err |-> answer.err]
  ELSE IF answer.n = 0 THEN [connectorProfile |-> Null, err |-> "EmptyResultError"]
  ELSE IF answer.n > 1 THEN [connectorProfile |-> Null, err |-> "TooManyResultsError"]
  ELSE [connectorProfile |-> answer.first, err |-> ""]

\* flattenConnectorProfileConfig that takes the credentials from the
\* description, which holds none
flattenConnectorProfileConfigNoCredentials(cpp, cpc) ==
  [connector_profile_properties |-> cpp, connector_profile_credentials |-> ""]

\* flattenConnectorProfileConfig: the properties of the description and the
\* credentials block cpc that Read took from d
flattenConnectorProfileConfig(cpp, cpc) ==
  [connector_profile_properties |-> cpp, connector_profile_credentials |-> cpc]

\* tfresource.NotFound
NotFound(err) == err \in {"EmptyResultError", "NotFoundError"}

\* a resource that is never marked new
IsNewResourceNever == FALSE

\* d.IsNewResource(): the SDK marks the resource new before it calls Create
IsNewResource == op = "Create"

\* planning of a configuration against the current state
resourceConnectorProfilePlan ==
  \E cfg \in ProfileConfigs :
    /\ res = "profile"
    /\ pc = "idle"
    /\ plan' = ProfilePlan(cfg, state)
    /\ pc' = "planned"
    /\ op' = "Plan"
    /\ calls' = <<>>
    /\ diags' = <<>>
    /\ UNCHANGED <<peer, res, state, pre>>

\* the values of d when the plan is applied: what is unknown reads as unset
Applied(planned) == [a \in DOMAIN planned |-> IF planned[a] = Unknown THEN "" ELSE planned[a]]

\* Create, up to the CreateConnectorProfile call
resourceConnectorProfileCreate ==
  /\ pc = "planned"
  /\ plan.res = "profile"
  /\ plan.prior = NoState
  /\ Start("Create", "CreateConnectorProfile", plan.plan["name"])
  /\ UNCHANGED <<peer, res, state, plan>>

\* Create that calls d.SetId(name) before it looks at the error
resourceConnectorProfileCreateReturnIdFirst ==
  /\ pc = "CreateConnectorProfile"
  /\ \E err \in {""} \cup ProfileErrors :
    /\ LET name == plan.plan["name"]
       IN IF err # ""
          THEN /\ Answer(err)
               /\ Return([Applied(plan.plan) EXCEPT !["id"] = name],
                         Append(diags, Diag("error", "creating", name, err)))
          ELSE /\ Continue(err, "DescribeConnectorProfiles", name)
               /\ state' = [Applied(plan.plan) EXCEPT !["id"] = name]
               /\ pc' = "DescribeConnectorProfiles"
    /\ UNCHANGED <<peer, res, op>>

\* Create, from the answer of CreateConnectorProfile: an error, or
\* d.SetId(name) and the call of resourceConnectorProfileRead
resourceConnectorProfileCreateReturn ==
  /\ pc = "CreateConnectorProfile"
  /\ \E err \in {""} \cup ProfileErrors :
    /\ LET name == plan.plan["name"]
       IN IF err # ""
          THEN /\ Answer(err)
               /\ Return(state, Append(diags, Diag("error", "creating", name, err)))
          ELSE /\ Continue(err, "DescribeConnectorProfiles", name)
               /\ state' = [Applied(plan.plan) EXCEPT !["id"] = name]
               /\ pc' = "DescribeConnectorProfiles"
    /\ UNCHANGED <<peer, res, op>>

\* Read, up to the DescribeConnectorProfiles call
resourceConnectorProfileRead ==
  /\ res = "profile"
  /\ pc = "idle"
  /\ state # NoState
  /\ Start("Read", "DescribeConnectorProfiles", state["id"])
  /\ UNCHANGED <<peer, res, state, plan>>

\* resourceConnectorProfileRead from the answer of DescribeConnectorProfiles,
\* called by the caller or at the end of Create and Update
resourceConnectorProfileReadReturn ==
  /\ pc = "DescribeConnectorProfiles"
  /\ \E answer \in DescribeAnswers(state["id"]) :
    /\ Answer(DescribeAnswerName(answer))
    /\ LET found == findConnectorProfileByName(answer)
           connectorProfile == found.connectorProfile
       IN IF ~IsNewResource /\ NotFound(found.err)
          THEN Return(NoState, diags)
          ELSE IF found.err # ""
          THEN Return(state, Append(diags, Diag("error", "reading", state["id"], found.err)))
          ELSE Return([state EXCEPT
                         !["arn"] = connectorProfile.ConnectorProfileArn,
                         !["connection_mode"] = connectorProfile.ConnectionMode,
                         !["connector_label"] = connectorProfile.ConnectorLabel,
                         !["properties"] = flattenConnectorProfileConfig(
                                             connectorProfile.ConnectorProfileProperties,
                                             state["credentials"]).connector_profile_properties,
                         !["credentials"] = flattenConnectorProfileConfig(
                                              connectorProfile.ConnectorProfileProperties,
                                              state["credentials"]).connector_profile_credentials,
                         !["connector_type"] = connectorProfile.ConnectorType,
                         !["credentials_arn"] = connectorProfile.CredentialsArn,
                         !["name"] = connectorProfile.ConnectorProfileName],
                      diags)
    /\ UNCHANGED <<peer, res, op>>

\* import by id (the identity attribute is name): the state holds the id
\* alone, and the caller reads the object at once
resourceConnectorProfileImport ==
  /\ res = "profile"
  /\ pc = "idle"
  /\ state = NoState
  /\ \E id \in ProfileNames :
       /\ state' = [a \in ProfileAttrs |-> IF a = "id" THEN id ELSE ""]
       /\ op' = "Import"
       /\ pc' = "DescribeConnectorProfiles"
       /\ pre' = NoState
       /\ calls' = <<Call("DescribeConnectorProfiles", id)>>
       /\ diags' = <<>>
  /\ UNCHANGED <<peer, res, plan>>

\* Update, up to the UpdateConnectorProfile call: the caller invokes Update
\* for a plan that changes the object and does not require replacement;
\* d holds the planned values
resourceConnectorProfileUpdate ==
  /\ pc = "planned"
  /\ plan.res = "profile"
  /\ plan.prior # NoState
  /\ plan.rr = {}
  /\ plan.plan # plan.prior
  /\ state' = plan.plan
  /\ Start("Update", "UpdateConnectorProfile", plan.plan["name"])
  /\ UNCHANGED <<peer, res, plan>>

\* Update without the call of resourceConnectorProfileRead
resourceConnectorProfileUpdateReturnNoRead ==
  /\ pc = "UpdateConnectorProfile"
  /\ \E err \in {""} \cup ProfileErrors :
    /\ Answer(err)
    /\ IF err # ""
       THEN Return(state, Append(diags, Diag("error", "updating", state["id"], err)))
       ELSE Return(state, diags)
    /\ UNCHANGED <<peer, res, op>>

\* Update, from the answer of UpdateConnectorProfile: an error (the SDK
\* keeps the values of d), or the call of resourceConnectorProfileRead
resourceConnectorProfileUpdateReturn ==
  /\ pc = "UpdateConnectorProfile"
  /\ \E err \in {""} \cup ProfileErrors :
    /\ IF err # ""
       THEN /\ Answer(err)
            /\ Return(state, Append(diags, Diag("error", "updating", state["id"], err)))
       ELSE /\ Continue(err, "DescribeConnectorProfiles", state["id"])
            /\ pc' = "DescribeConnectorProfiles"
            /\ UNCHANGED state
    /\ UNCHANGED <<peer, res, op>>

\* Delete, up to the DeleteConnectorProfile call; the caller destroys the
\* object, or replaces it because its plan requires replacement
resourceConnectorProfileDelete ==
  /\ res = "profile"
  /\ state # NoState
  /\ \/ pc = "idle"
     \/ pc = "planned" /\ plan.rr # {}
  /\ Start("Delete", "DeleteConnectorProfile", state["name"])
  /\ plan' = NoPlan
  /\ UNCHANGED <<peer, res, state>>

\* Delete, from the answer of DeleteConnectorProfile: not-found is a success;
\* when Delete returns without an error the SDK clears the id
resourceConnectorProfileDeleteReturn ==
  /\ pc = "DeleteConnectorProfile"
  /\ \E err \in {""} \cup ProfileErrors :
    /\ Answer(err)
    /\ IF err = "ResourceNotFoundException" \/ err = ""
       THEN Return(NoState, diags)
       ELSE Return(state, Append(diags, Diag("error", "deleting", state["id"], err)))
    /\ UNCHANGED <<peer, res, op>>

Next ==
  \/ directoryBucketResourcePlan
  \/ directoryBucketResourceCreate
  \/ directoryBucketResourceCreateReturn
  \/ directoryBucketResourceRead
  \/ directoryBucketResourceReadReturn
  \/ directoryBucketResourceDelete
  \/ directoryBucketResourceDeleteReturn
  \/ directoryBucketResourceDeleteEmptied
  \/ directoryBucketResourceDeleteRetried
  \/ resourceConnectorProfilePlan
  \/ resourceConnectorProfileCreate
  \/ resourceConnectorProfileCreateReturn
  \/ resourceConnectorProfileRead
  \/ resourceConnectorProfileReadReturn
  \/ resourceConnectorProfileUpdate
  \/ resourceConnectorProfileUpdateReturn
  \/ resourceConnectorProfileDelete
  \/ resourceConnectorProfileDeleteReturn
  \/ directoryBucketResourceImport
  \/ resourceConnectorProfileImport
  \/ Release

Spec == Init /\ [][Next]_vars

\* a remote call is in flight
InFlight == pc \notin {"idle", "planned", "done"}

\* the remote call in flight returns, with a result or with an error, and
\* the handler goes on from the answer
RemoteCallReturns ==
  \/ directoryBucketResourceCreateReturn
  \/ directoryBucketResourceReadReturn
  \/ directoryBucketResourceDeleteReturn
  \/ directoryBucketResourceDeleteEmptied
  \/ directoryBucketResourceDeleteRetried
  \/ resourceConnectorProfileCreateReturn
  \/ resourceConnectorProfileReadReturn
  \/ resourceConnectorProfileUpdateReturn
  \/ resourceConnectorProfileDeleteReturn

\* every remote call returns in the end (the client gives up on a call at
\* the timeout or the cancellation of its context)
SpecFair == Spec /\ WF_vars(RemoteCallReturns)

\* ------------------------------------------------------------------------
\* Two executors, A and B, each with its own object: one of them runs, the
\* other one waits (before an operation, or for the answer of its remote
\* call) in peer
\* ------------------------------------------------------------------------
Executors == {"A", "B"}
Running == IF peer.who = "A" THEN "B" ELSE "A"

\* the names of the objects of an executor
ExecutorObject(who, r) ==
  IF r = "bucket"
  THEN IF who = "A" THEN "b--usw2-az2--x-s3" ELSE "c.d--a-1--x-s3"
  ELSE IF who = "A" THEN "p1" ELSE "p2"

\* what an executor holds
Executor(who) ==
  [who |-> who, res |-> res, state |-> state, pc |-> pc, op |-> op, plan |-> plan,
   pre |-> pre, calls |-> calls, diags |-> diags]

\* the configurations and remote descriptions of an executor's object that
\* the two executors are run with
OwnObject ==
  /\ plan # NoPlan =>
       IF res = "bucket"
       THEN /\ plan.cfg.bucket = ExecutorObject(Running, res)
            /\ plan.cfg.data_redundancy = Null
            /\ plan.cfg.locations = 1
            /\ plan.cfg.location_name = "usw2-az2"
            /\ plan.cfg.location_type = AvailabilityZone
       ELSE /\ plan.cfg.name = ExecutorObject(Running, res)
            /\ plan.cfg.connector_label = ""
            /\ plan.cfg.connector_type = "Salesforce"
            /\ plan.cfg.kms_arn = ""
            /\ plan.cfg.credentials = "credentials-1"
  /\ state # NoState =>
       /\ state["id"] = ExecutorObject(Running, res)
       /\ IF res = "bucket"
          THEN state["location.name"] \in {Null, "usw2-az2"}
          ELSE state["connector_label"] = "" /\ state["connector_type"] \in {"", "Salesforce"}

InitTwo ==
  /\ res \in {"bucket", "profile"}
  /\ state = NoState
  /\ pc = "idle"
  /\ op = "none"
  /\ plan = NoPlan
  /\ pre = NoState
  /\ calls = <<>>
  /\ diags = <<>>
  /\ \E r \in {"bucket", "profile"} :
       peer = [who |-> "B", res |-> r, state |-> NoState, pc |-> "idle", op |-> "none",
               plan |-> NoPlan, pre |-> NoState, calls |-> <<>>, diags |-> <<>>]

\* the other executor runs: between two operations of the running one, or
\* while the running one waits for the answer of its remote call
Switch ==
  /\ peer # NoPeer
  /\ peer' = Executor(Running)
  /\ res' = peer.res
  /\ state' = peer.state
  /\ pc' = peer.pc
  /\ op' = peer.op
  /\ plan' = peer.plan
  /\ pre' = peer.pre
  /\ calls' = peer.calls
  /\ diags' = peer.diags

NextTwo ==
  \/ directoryBucketResourcePlan /\ OwnObject'
  \/ directoryBucketResourceCreate /\ OwnObject'
  \/ directoryBucketResourceCreateReturn /\ OwnObject'
  \/ directoryBucketResourceRead /\ OwnObject'
  \/ directoryBucketResourceReadReturn /\ OwnObject'
  \/ directoryBucketResourceDelete /\ OwnObject'
  \/ directoryBucketResourceDeleteReturn /\ OwnObject'
  \/ directoryBucketResourceDeleteEmptied /\ OwnObject'
  \/ directoryBucketResourceDeleteRetried /\ OwnObject'
  \/ resourceConnectorProfilePlan /\ OwnObject'
  \/ resourceConnectorProfileCreate /\ OwnObject'
  \/ resourceConnectorProfileCreateReturn /\ OwnObject'
  \/ resourceConnectorProfileRead /\ OwnObject'
  \/ resourceConnectorProfileReadReturn /\ OwnObject'
  \/ resourceConnectorProfileUpdate /\ OwnObject'
  \/ resourceConnectorProfileUpdateReturn /\ OwnObject'
  \/ resourceConnectorProfileDelete /\ OwnObject'
  \/ resourceConnectorProfileDeleteReturn /\ OwnObject'
  \/ directoryBucketResourceImport /\ OwnObject'
  \/ resourceConnectorProfileImport /\ OwnObject'
  \/ Release /\ OwnObject'
  \/ Switch

SpecTwo == InitTwo /\ [][NextTwo]_vars

TypeOK ==
  /\ res \in {"bucket", "profile"}
  /\ pc \in {"idle", "planned", "done", "CreateBucket", "findBucket", "DeleteBucket",
             "emptyDirectoryBucket", "DeleteBucket2", "CreateConnectorProfile",
             "DescribeConnectorProfiles", "UpdateConnectorProfile",
             "DeleteConnectorProfile"}

\* ------------------------------------------------------------------------
\* The record of the operation
\* ------------------------------------------------------------------------
\* the answer of the last remote call that returned
LastAnswer == calls[Len(calls)].ans
\* the remote calls of api that the operation issued
Issued(api) == {i \in 1..Len(calls) : calls[i].ev = "call" /\ calls[i].api = api}
\* the operation of a handler is over
Done(operation) == pc = "done" /\ op = operation

\* ------------------------------------------------------------------------
\* Properties
\* ------------------------------------------------------------------------
\* C1: a Read of a Present object whose lookup reports not-found (findBucket
\* returns a not-found error; DescribeConnectorProfiles returns an output
\* without description) removes the object from the managed state and
\* returns no error diagnostic.
ReadNotFoundRemoves ==
  (Done("Read") /\ LastAnswer \in {"NotFound", "EmptyOutput"})
    => (pre # NoState /\ state = NoState /\ ~HasError(diags))

ReadNotFoundRemovesWitness ==
  /\ res = "profile"
  /\ Done("Read")
  /\ LastAnswer = "EmptyOutput"
  /\ pre # NoState
  /\ state = NoState
  /\ diags = <<>>

\* C2: a Delete whose remote delete call reports not-found (NoSuchBucket,
\* ResourceNotFoundException) returns no error diagnostic and the object is
\* Absent, for the first delete call and for the one after the drain.
DeleteNotFoundSucceeds ==
  (Done("Delete") /\ LastAnswer \in {"NoSuchBucket", "ResourceNotFoundException"})
    => (pre # NoState /\ state = NoState /\ ~HasError(diags))

DeleteNotFoundSucceedsWitness ==
  /\ res = "bucket"
  /\ Done("Delete")
  /\ Cardinality(Issued("DeleteBucket")) = 2
  /\ LastAnswer = "NoSuchBucket"
  /\ state = NoState
  /\ diags = <<>>

\* C3: a bucket Delete whose first DeleteBucket reports BucketNotEmpty while
\* force_destroy is false is over after that answer: it returns an error
\* diagnostic, the object stays as it was, nothing is emptied, and
\* DeleteBucket was called once.
DeleteNotEmptyWithoutForce ==
  (/\ res = "bucket"
   /\ op = "Delete"
   /\ Len(calls) >= 2
   /\ calls[2].ans = "BucketNotEmpty"
   /\ pre["force_destroy"] = "false")
    => (/\ pc = "done"
        /\ HasError(diags)
        /\ state = pre
        /\ state # NoState
        /\ Issued("emptyDirectoryBucket") = {}
        /\ Cardinality(Issued("DeleteBucket")) = 1)

DeleteNotEmptyWithoutForceWitness ==
  /\ res = "bucket"
  /\ Done("Delete")
  /\ calls[2].ans = "BucketNotEmpty"
  /\ pre["force_destroy"] = "false"
  /\ HasError(diags)
  /\ state = pre

\* the first DeleteBucket of a bucket Delete answered BucketNotEmpty and
\* force_destroy is true
ForceDestroyCase ==
  /\ res = "bucket"
  /\ op = "Delete"
  /\ Len(calls) >= 2
  /\ calls[2].ans = "BucketNotEmpty"
  /\ pre["force_destroy"] = "true"

\* the remote calls of a bucket Delete: every call is answered before the
\* next one is issued, the calls are DeleteBucket, emptyDirectoryBucket,
\* DeleteBucket in this order (at most two deletes and one drain), the
\* bucket is emptied only in the force-destroy case, a second delete that
\* succeeds leaves the object Absent, and a second BucketNotEmpty ends
\* Delete with an error and the object kept.
DeleteCallsInOrder ==
  (res = "bucket" /\ op = "Delete") =>
    /\ \A i \in 1..Len(calls) :
         /\ calls[i].ev = IF i % 2 = 1 THEN "call" ELSE "ret"
         /\ i % 2 = 0 => calls[i].api = calls[i - 1].api
         /\ i % 2 = 1 =>
              /\ i <= 5
              /\ calls[i].api = <<"DeleteBucket", "-", "emptyDirectoryBucket", "-", "DeleteBucket">>[i]
    /\ Len(calls) % 2 = 1 <=> pc # "done"
    /\ Issued("emptyDirectoryBucket") # {} => ForceDestroyCase
    /\ (Len(calls) = 6 /\ LastAnswer = "") => (state = NoState /\ ~HasError(diags))
    /\ (Len(calls) = 6 /\ LastAnswer = "BucketNotEmpty") =>
         (pc = "done" /\ HasError(diags) /\ state = pre)

\* C4, as amended: in the force-destroy case the bucket is emptied; when
\* that succeeds DeleteBucket is called a second time, and when it fails
\* Delete is over with an error, the object kept and no second delete; the
\* calls of every bucket Delete are in order.
DeleteForceDestroyRetry ==
  /\ DeleteCallsInOrder
  /\ ForceDestroyCase =>
       /\ Len(calls) >= 3
       /\ (Len(calls) >= 4 /\ calls[4].ans = "") => Len(calls) >= 5
       /\ (Len(calls) >= 4 /\ calls[4].ans # "") =>
            /\ Len(calls) = 4
            /\ pc = "done"
            /\ HasError(diags)
            /\ state = pre

DeleteForceDestroyRetryWitness ==
  /\ ForceDestroyCase
  /\ pc = "done"
  /\ Len(calls) = 6
  /\ LastAnswer = ""
  /\ state = NoState
  /\ diags = <<>>

\* C4, as stated: whenever the first DeleteBucket answered BucketNotEmpty
\* and force_destroy is true, the bucket is emptied and DeleteBucket is
\* called a second time.
DeleteForceDestroyAlwaysRetries ==
  /\ DeleteCallsInOrder
  /\ (ForceDestroyCase /\ pc = "done") =>
       /\ Cardinality(Issued("emptyDirectoryBucket")) = 1
       /\ Cardinality(Issued("DeleteBucket")) = 2

\* s is <name>--<zone id>--x-s3: a name of lower case letters, digits,
\* periods and hyphens, and a zone id of two or more groups of lower case
\* letters and digits that single hyphens separate
DirectoryBucketShape(s) ==
  \E i \in 1..Len(s), j \in 1..Len(s) :
    /\ i + 3 <= j
    /\ \A k \in 1..i : s[k] \in Digits \cup Lower \cup {".", "-"}
    /\ s[i + 1] = "-" /\ s[i + 2] = "-"
    /\ \A k \in (i + 3)..j : s[k] \in Digits \cup Lower \cup {"-"}
    /\ \E k \in (i + 3)..j : s[k] = "-"
    /\ s[i + 3] # "-" /\ s[j] # "-"
    /\ \A k \in (i + 3)..(j - 1) : ~(s[k] = "-" /\ s[k + 1] = "-")
    /\ SubSeq(s, j + 1, Len(s)) = <<"-", "-", "x", "-", "s", "3">>

\* C5: a configured bucket name passes validation exactly when it has the
\* shape <name>--<zone id with a hyphen>--x-s3; a name that does not is
\* answered with a validation error and no remote call; CreateBucket is
\* only ever called with a name of that shape.
BucketNameValidated ==
  /\ (res = "bucket" /\ pc = "planned") =>
       /\ plan.valid => DirectoryBucketShape(Chars(plan.cfg.bucket))
       /\ plan.cfg.locations = 1 =>
            /\ DirectoryBucketShape(Chars(plan.cfg.bucket)) => plan.valid
            /\ plan.cfg.bucket = "b--usw2-az2--x-s3" => plan.valid
       /\ plan.cfg.bucket = "my-bucket" => ~plan.valid
       /\ ~plan.valid => (HasError(diags) /\ calls = <<>>)
  /\ \A i \in 1..Len(calls) :
       calls[i].api = "CreateBucket" => DirectoryBucketShape(Chars(calls[i].arg))

BucketNameValidatedWitness ==
  /\ res = "bucket"
  /\ pc = "planned"
  /\ plan.cfg.bucket = "my-bucket"
  /\ ~plan.valid
  /\ HasError(diags)
  /\ calls = <<>>

\* C6: when data_redundancy is not configured, its planned value is unknown
\* before the plan modifiers run, and the location type is not known at plan
\* time, the planned data_redundancy stays unknown.
DataRedundancyStaysUnknown ==
  (/\ res = "bucket"
   /\ pc = "planned"
   /\ plan.valid
   /\ plan.cfg.data_redundancy = Null
   /\ plan.cfg.location_type = Unknown
   /\ BucketMarked(plan.cfg, plan.prior)["data_redundancy"] = Unknown)
    => plan.plan["data_redundancy"] = Unknown

\* the change-set mark of an attribute of a plan
Mark(p, a) ==
  IF a \in p.rr THEN "requires-replacement"
  ELSE IF p.plan[a] = Unknown THEN "computed-pending"
  ELSE IF p.prior # NoState /\ p.plan[a] = p.prior[a] THEN "unchanged"
  ELSE "set-to-value"

\* the configuration of a bucket plan gives the values of its prior state
\* (data_redundancy, which is computed, may also be omitted)
DesiredEqualsPrior ==
  /\ res = "bucket"
  /\ pc = "planned"
  /\ plan.prior # NoState
  /\ plan.cfg.bucket = plan.prior["bucket"]
  /\ plan.cfg.data_redundancy \in {Null, plan.prior["data_redundancy"]}
  /\ plan.cfg.force_destroy = plan.prior["force_destroy"]
  /\ plan.cfg.locations = 1
  /\ plan.cfg.location_name = plan.prior["location.name"]
  /\ plan.cfg.location_type = plan.prior["location.type"]

BucketReplaceChanges ==
  {a \in {"bucket", "data_redundancy", "location.name", "location.type"} :
     LET desired == CASE a = "bucket" -> plan.cfg.bucket
                      [] a = "data_redundancy" -> plan.cfg.data_redundancy
                      [] a = "location.name" -> plan.cfg.location_name
                      [] a = "location.type" -> plan.cfg.location_type
     IN desired \notin {Null, Unknown} /\ desired # plan.prior[a]}

\* the replacement-on-change attributes of a connector profile whose
\* configured value differs from the prior value (an unset kms_arn is
\* computed and has no configured value)
ProfileReplaceChanges ==
  {a \in {"connector_label", "connector_type", "kms_arn", "name"} :
     /\ a = "kms_arn" => plan.cfg[a] # ""
     /\ plan.cfg[a] # plan.prior[a]}

\* a plan against a prior state that changes a replacement-on-change
\* attribute and a non-replacement attribute
ReplaceAndInPlaceChange ==
  /\ plan # NoPlan
  /\ plan.valid
  /\ plan.prior # NoState
  /\ \/ /\ plan.res = "bucket"
        /\ BucketReplaceChanges # {}
        /\ plan.cfg.force_destroy # plan.prior["force_destroy"]
     \/ /\ plan.res = "profile"
        /\ ProfileReplaceChanges # {}
        /\ \E a \in {"connection_mode", "credentials", "properties"} :
             plan.cfg[a] # plan.prior[a]

\* C8: a plan that changes a replacement-on-change attribute together with
\* a non-replacement attribute marks the object requires-replacement (every
\* such attribute that changed is marked), and no remote update call is
\* issued for it: Update does not run on a plan that requires replacement.
ReplaceNeverUpdates ==
  /\ ReplaceAndInPlaceChange =>
       /\ plan.rr # {}
       /\ plan.res = "bucket" => BucketReplaceChanges \subseteq plan.rr
       /\ plan.res = "profile" => ProfileReplaceChanges \subseteq plan.rr
       /\ op # "Update"
       /\ Issued("UpdateConnectorProfile") = {}
  /\ (op = "Update" \/ Issued("UpdateConnectorProfile") # {}) =>
       (plan # NoPlan /\ plan.rr = {} /\ ProfileReplaceChanges = {})

ReplaceNeverUpdatesWitness ==
  /\ pc = "planned"
  /\ ReplaceAndInPlaceChange
  /\ plan.res = "profile"
  /\ plan.cfg.name # plan.prior["name"]
  /\ plan.cfg.connection_mode # plan.prior["connection_mode"]
  /\ "name" \in plan.rr

\* the remote calls the operation issued, in order (the operation is over)
IssuedApis == [i \in 1..(Len(calls) \div 2) |-> calls[2 * i - 1].api]

\* C9, as amended: a Create, Update or Delete that is over issued exactly
\* one mutating remote call, but for: the force-destroy case of the bucket
\* (the first delete, the drain and, when the drain succeeded, the second
\* delete), and Create and Update of the connector profile, which after a
\* successful remote create or update issue one DescribeConnectorProfiles
\* call to read the object back.
OneMutatingCall ==
  (pc = "done" /\ op \in {"Create", "Update", "Delete"}) =>
    CASE res = "bucket" /\ op = "Create" -> IssuedApis = <<"CreateBucket">>
      [] res = "bucket" /\ op = "Delete" ->
           IF ~ForceDestroyCase THEN IssuedApis = <<"DeleteBucket">>
           ELSE IF calls[4].ans # "" THEN IssuedApis = <<"DeleteBucket", "emptyDirectoryBucket">>
           ELSE IssuedApis = <<"DeleteBucket", "emptyDirectoryBucket", "DeleteBucket">>
      [] res = "profile" /\ op = "Create" ->
           IF calls[2].ans # "" THEN IssuedApis = <<"CreateConnectorProfile">>
           ELSE IssuedApis = <<"CreateConnectorProfile", "DescribeConnectorProfiles">>
      [] res = "profile" /\ op = "Update" ->
           IF calls[2].ans # "" THEN IssuedApis = <<"UpdateConnectorProfile">>
           ELSE IssuedApis = <<"UpdateConnectorProfile", "DescribeConnectorProfiles">>
      [] res = "profile" /\ op = "Delete" -> IssuedApis = <<"DeleteConnectorProfile">>

OneMutatingCallWitness ==
  /\ res = "profile"
  /\ Done("Create")
  /\ IssuedApis = <<"CreateConnectorProfile", "DescribeConnectorProfiles">>
  /\ diags = <<>>
  /\ state # NoState

\* C9, as stated: a Create, Update or Delete that is over issued exactly one
\* remote call, but for the force-destroy case of the bucket.
ExactlyOneRemoteCall ==
  (pc = "done" /\ op \in {"Create", "Update", "Delete"} /\ ~ForceDestroyCase)
    => Len(IssuedApis) = 1

\* the identity of the object the operation runs on
Identity ==
  IF res = "bucket"
  THEN IF op = "Create" THEN plan.plan["bucket"] ELSE pre["id"]
  ELSE IF op = "Create" THEN plan.plan["name"] ELSE pre["name"]

\* the answer i of the operation is an error that the handler may pass over:
\* not-found on a Read of an existing object (also the one at the end of
\* Update), not-found on a delete call, BucketNotEmpty when the delete after
\* the drain ended Delete without error
Excused(i) ==
  \/ calls[i].ans \in {"NotFound", "EmptyOutput"} /\ op \in {"Read", "Update"}
  \/ /\ calls[i].ans \in {"NoSuchBucket", "ResourceNotFoundException"}
     /\ calls[i].api \in {"DeleteBucket", "DeleteConnectorProfile"}
  \/ /\ calls[i].ans = "BucketNotEmpty"
     /\ i = 2
     /\ Len(calls) = 6
     /\ calls[6].ans \in {"", "NoSuchBucket"}

\* a remote call of the operation failed with an error that is not excused
RemoteFailure ==
  /\ pc = "done"
  /\ op \in {"Create", "Read", "Update", "Delete"}
  /\ \E i \in 1..Len(calls) : calls[i].ev = "ret" /\ calls[i].ans # "" /\ ~Excused(i)

\* what the handlers call the step a remote call belongs to
StepName(api) ==
  CASE api \in {"CreateBucket", "CreateConnectorProfile"} -> "creating"
    [] api \in {"findBucket", "DescribeConnectorProfiles"} -> "reading"
    [] api = "UpdateConnectorProfile" -> "updating"
    [] api \in {"DeleteBucket", "DeleteConnectorProfile"} -> "deleting"
    [] api = "emptyDirectoryBucket" -> "emptying"

\* what the handlers call an operation
OperationName(operation) ==
  CASE operation = "Create" -> "creating"
    [] operation = "Read" -> "reading"
    [] operation = "Update" -> "updating"
    [] operation = "Delete" -> "deleting"

\* C10, as amended: an operation with a remote failure that is not excused
\* returns an error diagnostic, and every error diagnostic it returns
\* carries the identity of the object and the name of the step that failed
\* last: the operation itself, or reading when the read at the end of Create
\* or Update failed, or emptying when the drain of Delete failed.
RemoteFailureSurfaced ==
  RemoteFailure =>
    /\ HasError(diags)
    /\ \A k \in 1..Len(diags) :
         diags[k].severity = "error" =>
           /\ diags[k].id = Identity
           /\ diags[k].doing = StepName(calls[Len(calls)].api)
           /\ diags[k].doing # OperationName(op) =>
                \/ op \in {"Create", "Update"} /\ diags[k].doing = "reading"
                \/ op = "Delete" /\ diags[k].doing = "emptying"

RemoteFailureSurfacedWitness ==
  /\ RemoteFailure
  /\ res = "profile"
  /\ op = "Create"
  /\ IssuedApis = <<"CreateConnectorProfile", "DescribeConnectorProfiles">>
  /\ LastAnswer = "InternalServerException"
  /\ Len(diags) = 1
  /\ diags[1].severity = "error"
  /\ diags[1].doing = "reading"
  /\ diags[1].id = plan.plan["name"]

\* C10, as stated: an operation with a remote failure that is not excused
\* returns an error diagnostic that carries the identity of the object and
\* the name of the operation the caller invoked.
RemoteFailureNamesOperation ==
  RemoteFailure =>
    \E k \in 1..Len(diags) :
      /\ diags[k].severity = "error"
      /\ diags[k].id = Identity
      /\ diags[k].doing = OperationName(op)

\* an operation of a handler is over and returned an error diagnostic
FailedOperation ==
  /\ pc = "done"
  /\ op \in {"Create", "Read", "Update", "Delete"}
  /\ HasError(diags)

\* Create of the connector profile failed in the read after a successful
\* CreateConnectorProfile
CreateReadBackFailed ==
  /\ res = "profile"
  /\ op = "Create"
  /\ FailedOperation
  /\ IssuedApis = <<"CreateConnectorProfile", "DescribeConnectorProfiles">>

\* C11, as amended: an operation that returned an error diagnostic leaves
\* the managed state as it was when the operation started, with two
\* exceptions of the connector profile: a Create whose CreateConnectorProfile
\* succeeded and whose read failed has recorded the identity of the object
\* with the planned values, and a failed Update leaves the object Present
\* under its identity with the planned values.
StateKeptOnError ==
  FailedOperation =>
    IF CreateReadBackFailed
    THEN /\ pre = NoState
         /\ state # NoState
         /\ state["id"] = plan.plan["name"]
         /\ \A a \in {"connection_mode", "credentials", "properties", "connector_type", "name"} :
              state[a] = plan.plan[a]
    ELSE IF res = "profile" /\ op = "Update"
    THEN /\ state # NoState
         /\ state["id"] = pre["id"]
         /\ \A a \in {"connection_mode", "credentials", "properties"} :
              state[a] = plan.plan[a]
    ELSE state = pre

StateKeptOnErrorWitness ==
  /\ res = "profile"
  /\ Done("Read")
  /\ HasError(diags)
  /\ LastAnswer = "InternalServerException"
  /\ state = pre
  /\ state # NoState

\* C11, as stated: an operation that returned an error diagnostic leaves the
\* managed state exactly as it was when the operation started.
StateUnchangedOnError ==
  FailedOperation => state = pre

\* C12: a Create whose remote create call (CreateBucket,
\* CreateConnectorProfile) answered with an error is over after that answer:
\* it returns an error diagnostic, the object has no state and no
\* identity, and no other remote call was issued.
CreateRejected ==
  (op = "Create" /\ Len(calls) >= 2 /\ calls[2].ans # "")
    => (/\ pc = "done"
        /\ HasError(diags)
        /\ pre = NoState
        /\ state = NoState
        /\ Len(calls) = 2
        /\ calls[1].api \in {"CreateBucket", "CreateConnectorProfile"})

CreateRejectedWitness ==
  /\ res = "profile"
  /\ Done("Create")
  /\ IssuedApis = <<"CreateConnectorProfile">>
  /\ LastAnswer = "InternalServerException"
  /\ HasError(diags)
  /\ state = NoState

\* C13: after a Create that returned no error diagnostic the object is
\* Present and no attribute of its state is unknown; the connector profile
\* holds the arn and the credentials_arn of the description that
\* DescribeConnectorProfiles returned for its name, the bucket holds its
\* name as id and the ARN of that name.
CreatePopulatesComputed ==
  (Done("Create") /\ ~HasError(diags)) =>
    /\ state # NoState
    /\ \A a \in DOMAIN state : state[a] # Unknown
    /\ res = "profile" =>
         /\ IssuedApis = <<"CreateConnectorProfile", "DescribeConnectorProfiles">>
         /\ state["id"] = plan.plan["name"]
         /\ \E d \in ConnectorProfileDetails(state["id"]) :
              /\ state["arn"] = d.ConnectorProfileArn
              /\ state["credentials_arn"] = d.CredentialsArn
    /\ res = "bucket" =>
         /\ state["id"] = plan.plan["bucket"]
         /\ state["arn"] = arn(plan.plan["bucket"])
         /\ state["arn"] # Null

CreatePopulatesComputedWitness ==
  /\ res = "bucket"
  /\ Done("Create")
  /\ diags = <<>>
  /\ plan.plan["arn"] = Unknown
  /\ plan.plan["id"] = Unknown
  /\ plan.cfg.data_redundancy = Null
  /\ state["id"] = "b--usw2-az2--x-s3"
  /\ state["data_redundancy"] = SingleAvailabilityZone

\* C14: an Update of the connector profile that returned no error
\* diagnostic leaves the object Present, with the identity it had.
UpdateKeepsPresent ==
  (res = "profile" /\ Done("Update") /\ ~HasError(diags))
    => (state # NoState /\ state["id"] = pre["id"])

\* what an executor holds concerns its own object only: the remote calls it
\* issued, its diagnostics and the identity in its state name its object
OwnObjectOnly(e) ==
  LET name == ExecutorObject(e.who, e.res)
  IN /\ \A i \in 1..Len(e.calls) : e.calls[i].arg = name
     /\ \A k \in 1..Len(e.diags) : e.diags[k].id = name
     /\ e.state # NoState => e.state["id"] = name
     /\ e.pre # NoState => e.pre["id"] = name

\* a step leaves what the waiting executor holds as it is, or it is the
\* switch, which changes nothing but which executor runs
OtherUntouched ==
  \/ peer' = peer
  \/ peer' = Executor(Running) /\ Executor(Running)' = peer

CancelledAfterDrain ==
  /\ res = "bucket"
  /\ Done("Delete")
  /\ IssuedApis = <<"DeleteBucket", "emptyDirectoryBucket", "DeleteBucket">>
  /\ calls[2].ans = "BucketNotEmpty"
  /\ calls[4].ans = ""
  /\ calls[6].ans = "Canceled"

\* C16: a force-destroy Delete whose second DeleteBucket is cancelled after
\* the drain returns an error diagnostic and leaves the object Present as
\* it was; the caller then holds the same Present object, and a Read whose
\* findBucket finds the bucket returns no error and keeps the object Present
\* under its identity.
CancelledDeleteKeepsPresent ==
  /\ [](CancelledAfterDrain =>
          /\ HasError(diags)
          /\ pre["force_destroy"] = "true"
          /\ state # NoState
          /\ state = pre)
  /\ [][CancelledAfterDrain => (pc' = "idle" /\ state' = state)]_vars
  /\ []((res = "bucket" /\ Done("Read") /\ LastAnswer = "") =>
          /\ ~HasError(diags)
          /\ state # NoState
          /\ state["id"] = pre["id"]
          /\ state["force_destroy"] = pre["force_destroy"])

CancelledDeleteKeepsPresentWitness ==
  /\ CancelledAfterDrain
  /\ Len(diags) = 1
  /\ diags[1].severity = "error"
  /\ diags[1].doing = "deleting"
  /\ diags[1].detail = "Canceled"
  /\ state["id"] = "b--usw2-az2--x-s3"

\* the plan of a Present bucket whose configuration omits data_redundancy
\* and differs from the state in force_destroy only
OnlyForceDestroyChanges ==
  /\ pc = "planned"
  /\ plan.res = "bucket"
  /\ plan.valid
  /\ plan.prior # NoState
  /\ plan.cfg.data_redundancy = Null
  /\ plan.cfg.bucket = plan.prior["bucket"]
  /\ plan.cfg.location_name = plan.prior["location.name"]
  /\ plan.cfg.location_type = plan.prior["location.type"]
  /\ plan.cfg.force_destroy # plan.prior["force_destroy"]

\* C17: a plan of a Present bucket that omits data_redundancy and changes
\* force_destroy only marks no attribute requires-replacement.
UnknownNeverReplaces ==
  OnlyForceDestroyChanges => plan.rr = {}

\* the attributes that the schema of a resource declares, with their flags
DeclaredSchema(r) ==
  IF r = "bucket" THEN BucketSchema
  ELSE [a \in DOMAIN ProfileSchema \cup DOMAIN RedshiftSchema |->
          IF a \in DOMAIN RedshiftSchema
          THEN RedshiftSchema[a]
          ELSE [Required |-> ProfileSchema[a].Required,
                Optional |-> ProfileSchema[a].Optional,
                Computed |-> ProfileSchema[a].Computed]]

\* the kinds an attribute with flags f belongs to
AttributeKinds(f) ==
  {k \in {"required", "optional and computed", "optional only", "computed-only"} :
     CASE k = "required" -> f.Required /\ ~f.Optional /\ ~f.Computed
       [] k = "optional and computed" -> ~f.Required /\ f.Optional /\ f.Computed
       [] k = "optional only" -> ~f.Required /\ f.Optional /\ ~f.Computed
       [] k = "computed-only" -> ~f.Required /\ ~f.Optional /\ f.Computed}

\* C18, as amended: every attribute of the schema of the managed object is
\* of exactly one of the kinds required, optional and computed, optional
\* only, computed-only.
SchemaKinds ==
  \A a \in DOMAIN DeclaredSchema(res) :
    Cardinality(AttributeKinds(DeclaredSchema(res)[a])) = 1

\* the plan of a Present connector profile that leaves out the
\* optional-only connector_label: the planned value is unset, not the prior
SchemaKindsWitness ==
  /\ res = "profile"
  /\ pc = "planned"
  /\ AttributeKinds(DeclaredSchema(res)["connector_label"]) = {"optional only"}
  /\ plan.prior # NoState
  /\ plan.prior["connector_label"] = "label"
  /\ plan.cfg.connector_label = ""
  /\ plan.plan["connector_label"] = ""

\* C18, as stated: every attribute of the schema of the managed object is
\* of exactly one of the kinds required, optional and computed,
\* computed-only.
SchemaThreeKinds ==
  \A a \in DOMAIN DeclaredSchema(res) :
    Cardinality(AttributeKinds(DeclaredSchema(res)[a])
                  \cap {"required", "optional and computed", "computed-only"}) = 1

\* C19: a bucket configuration whose number of location blocks is not one
\* fails validation with an error diagnostic; no plan modifier has run on
\* the attributes of the block (nothing is marked requires-replacement and
\* the planned values are the proposed ones), and no remote call is issued:
\* CreateBucket is only called for a configuration with one location block.
LocationBlockOnce ==
  /\ (pc = "planned" /\ plan.res = "bucket" /\ plan.cfg.locations # 1) =>
       /\ ~plan.valid
       /\ HasError(diags)
       /\ calls = <<>>
       /\ plan.rr = {}
       /\ plan.plan = BucketProposed(plan.cfg, plan.prior)
  /\ (pc = "planned" /\ plan.res = "bucket" /\ plan.cfg.locations = 1) =>
       (plan.valid <=> BucketNameValid(plan.cfg.bucket))
  /\ (res = "bucket" /\ op = "Create") => plan.cfg.locations = 1

\* two location blocks, of which the first names another location than the
\* state of the Present bucket does
LocationBlockOnceWitness ==
  /\ pc = "planned"
  /\ plan.res = "bucket"
  /\ plan.cfg.locations = 2
  /\ plan.cfg.bucket = "b--usw2-az2--x-s3"
  /\ plan.prior # NoState
  /\ plan.prior["location.name"] # plan.cfg.location_name
  /\ ~plan.valid
  /\ plan.rr = {}
  /\ Len(diags) = 1

\* the largest number of remote calls of one operation: the first
\* DeleteBucket, emptyDirectoryBucket and the second DeleteBucket
MaxRemoteCalls == 3

\* C20: when every remote call returns in the end, an operation that has a
\* remote call in flight comes to its end, and no operation ever issues more
\* than three remote calls.
OperationTerminates ==
  /\ [](Len(calls) <= 2 * MaxRemoteCalls)
  /\ InFlight ~> pc = "done"

OperationTerminatesWitness ==
  /\ res = "bucket"
  /\ Done("Delete")
  /\ Len(IssuedApis) = MaxRemoteCalls
  /\ LastAnswer = "BucketNotEmpty"
  /\ HasError(diags)

\* C21: in the plan of a valid bucket configuration, a data_redundancy
\* that is known before the modifier runs (configured, or kept from the
\* prior state) is planned as it is; one that is unknown while the location
\* type is known is planned as the default of the location type:
\* SingleLocalZone for LocalZone and for no other type,
\* SingleAvailabilityZone otherwise.
DataRedundancyDefaulted ==
  (pc = "planned" /\ plan.res = "bucket" /\ plan.valid) =>
    LET before == BucketMarked(plan.cfg, plan.prior)["data_redundancy"]
        after == plan.plan["data_redundancy"]
    IN /\ before # Unknown => after = before
       /\ plan.cfg.data_redundancy # Null => after = plan.cfg.data_redundancy
       /\ (before = Unknown /\ plan.cfg.location_type # Unknown) =>
            /\ after \in {SingleLocalZone, SingleAvailabilityZone}
            /\ after = SingleLocalZone <=> plan.cfg.location_type = LocalZone

DataRedundancyDefaultedWitness ==
  /\ pc = "planned"
  /\ plan.res = "bucket"
  /\ plan.valid
  /\ plan.prior # NoState
  /\ plan.prior["data_redundancy"] = SingleAvailabilityZone
  /\ plan.cfg.data_redundancy = Null
  /\ plan.cfg.location_type = LocalZone
  /\ plan.plan["data_redundancy"] = SingleLocalZone

\* a step of resourceConnectorProfileRead, called by the caller or at the
\* end of Create or Update, that found the connector profile
ReadFound ==
  /\ res = "profile"
  /\ pc = "DescribeConnectorProfiles"
  /\ pc' = "done"
  /\ state' # NoState
  /\ ~HasError(diags')

\* C22: a resourceConnectorProfileRead that found the connector profile
\* leaves the credentials block, kms_arn and the id as they were before
\* the Read, and writes arn, connection_mode, connector_label, the
\* properties, connector_type, credentials_arn and name of one description
\* of the connector profile.
ReadKeepsCredentials ==
  [][ReadFound =>
       /\ state'["credentials"] = state["credentials"]
       /\ state'["kms_arn"] = state["kms_arn"]
       /\ state'["id"] = state["id"]
       /\ \E d \in ConnectorProfileDetails(state["id"]) :
            /\ state'["arn"] = d.ConnectorProfileArn
            /\ state'["connection_mode"] = d.ConnectionMode
            /\ state'["connector_label"] = d.ConnectorLabel
            /\ state'["properties"] = d.ConnectorProfileProperties
            /\ state'["connector_type"] = d.ConnectorType
            /\ state'["credentials_arn"] = d.CredentialsArn
            /\ state'["name"] = d.ConnectorProfileName]_vars

ReadKeepsCredentialsWitness ==
  /\ res = "profile"
  /\ Done("Read")
  /\ LastAnswer = ""
  /\ diags = <<>>
  /\ pre["credentials"] = "credentials-2"
  /\ state["credentials"] = "credentials-2"
  /\ pre["kms_arn"] = "arn:aws:kms:key/1"
  /\ state["kms_arn"] = "arn:aws:kms:key/1"
  /\ state["connection_mode"] # pre["connection_mode"]
  /\ state["connector_type"] # pre["connector_type"]

\* C23: a bucket Delete whose emptyDirectoryBucket answered with an error
\* is over after that answer: its only error diagnostic names the emptying
\* step, DeleteBucket was called once, and the object is Present as it was.
DrainFailureEndsDelete ==
  (/\ res = "bucket"
   /\ op = "Delete"
   /\ Len(calls) >= 4
   /\ calls[4].ans # "")
    => (/\ pc = "done"
        /\ IssuedApis = <<"DeleteBucket", "emptyDirectoryBucket">>
        /\ Cardinality(Issued("DeleteBucket")) = 1
        /\ Len(diags) = 1
        /\ diags[1].severity = "error"
        /\ diags[1].doing = "emptying"
        /\ state # NoState
        /\ state = pre)

DrainFailureEndsDeleteWitness ==
  /\ res = "bucket"
  /\ Done("Delete")
  /\ pre["force_destroy"] = "true"
  /\ calls[2].ans = "BucketNotEmpty"
  /\ calls[4].api = "emptyDirectoryBucket"
  /\ calls[4].ans = "AccessDenied"
  /\ Len(calls) = 4
  /\ state = pre

\* the identity attribute of the managed object: bucket, name
IdentityAttribute == IF res = "bucket" THEN "bucket" ELSE "name"

\* C24: a Present object between two operations, and one that a Create, a
\* Read or an import has just returned without error, has an id that
\* equals its identity attribute (bucket, name); every remote call of a
\* Read and of a Delete names the object by that one value.
IdEqualsIdentity ==
  /\ (/\ state # NoState
      /\ \/ pc = "idle"
         \/ pc = "done" /\ op \in {"Create", "Read", "Import"} /\ ~HasError(diags))
       => (/\ state["id"] = state[IdentityAttribute]
           /\ state["id"] \in BucketNames \cup ProfileNames)
  /\ (op \in {"Read", "Delete"} /\ pre # NoState)
       => \A i \in 1..Len(calls) :
            calls[i].arg = pre["id"] /\ calls[i].arg = pre[IdentityAttribute]

\* a Read that follows an import by id has filled in the identity attribute
IdEqualsIdentityWitness ==
  /\ res = "bucket"
  /\ Done("Import")
  /\ diags = <<>>
  /\ calls[1].api = "findBucket"
  /\ LastAnswer = ""
  /\ state["id"] = "c.d--a-1--x-s3"
  /\ state["bucket"] = "c.d--a-1--x-s3"
  /\ state["force_destroy"] = Null

\* a step of the bucket Read, called by the caller or after an import,
\* that found the bucket
BucketReadFound ==
  /\ res = "bucket"
  /\ pc = "findBucket"
  /\ pc' = "done"
  /\ state' # NoState
  /\ ~HasError(diags')

\* C25: a bucket Read that found the bucket stores a location name and a
\* location type that findBucket may return, the data_redundancy that is
\* the default of that location type (SingleLocalZone for LocalZone,
\* SingleAvailabilityZone otherwise) whatever was stored before, Directory
\* as type, and the ARN of the bucket; id and force_destroy stay as they
\* were.
ReadStoresRemoteLocation ==
  [][BucketReadFound =>
       /\ \E output \in FindBucketResults :
            /\ output.err = ""
            /\ state'["location.name"] = output.BucketLocationName
            /\ state'["location.type"] = output.BucketLocationType
       /\ state'["data_redundancy"] =
            (IF state'["location.type"] = LocalZone
             THEN SingleLocalZone ELSE SingleAvailabilityZone)
       /\ state'["type"] = Directory
       /\ state'["bucket"] = state["id"]
       /\ state'["arn"] = arn(state["id"])
       /\ state'["id"] = state["id"]
       /\ state'["force_destroy"] = state["force_destroy"]]_vars

ReadStoresRemoteLocationWitness ==
  /\ res = "bucket"
  /\ Done("Read")
  /\ diags = <<>>
  /\ pre["data_redundancy"] = SingleAvailabilityZone
  /\ pre["location.type"] = AvailabilityZone
  /\ state["location.type"] = LocalZone
  /\ state["data_redundancy"] = SingleLocalZone
  /\ state["location.name"] # pre["location.name"]

\* C26: a Create of the connector profile whose read after the successful
\* CreateConnectorProfile found no description returns an error diagnostic
\* of the reading step and keeps the identity it recorded; a Read of a
\* Present connector profile that found no description returns no error and
\* the object is Absent.
NewResourceNotFoundIsError ==
  /\ (/\ res = "profile"
      /\ Done("Create")
      /\ IssuedApis = <<"CreateConnectorProfile", "DescribeConnectorProfiles">>
      /\ LastAnswer = "EmptyOutput")
       => (/\ Len(diags) = 1
           /\ diags[1].severity = "error"
           /\ diags[1].doing = "reading"
           /\ state # NoState
           /\ state["id"] = plan.plan["name"])
  /\ (res = "profile" /\ Done("Read") /\ LastAnswer = "EmptyOutput")
       => (state = NoState /\ diags = <<>>)

NewResourceNotFoundIsErrorWitness ==
  /\ res = "profile"
  /\ Done("Create")
  /\ calls[2].ans = ""
  /\ LastAnswer = "EmptyOutput"
  /\ HasError(diags)
  /\ diags[1].detail = "EmptyResultError"
  /\ state["id"] = "p2"

\* ---------------------------------------------------------------------
\* connector_profile_properties: expand (configuration -> request) and
\* flatten (description -> state)
\* ---------------------------------------------------------------------

\* A Go pointer or interface value is Nil or <<v>>, the value it holds; the
\* empty string and a nil string pointer are different values.
Nil == <<>>
awsString(v) == <<v>>
awsToString(p) == IF p = Nil THEN "" ELSE p[1]
\* int32(v) keeps every v in -2^31 .. 2^31 - 1; the schema validates
\* port_number to MinPort..MaxPort, so the conversion never wraps
Int32(i) == i
awsInt32(i) == <<Int32(i)>>
awsToInt32(p) == IF p = Nil THEN 0 ELSE p[1]

\* a Go map with no key
EmptyMap == [k \in {} |-> ""]
\* m[k] = v is executed only under the condition c
PutIf(c, k, v) == IF c THEN k :> v ELSE EmptyMap

\* []any{m}: the list of one element that is not nil
ListOf(m) == << <<m>> >>

\* the element of a list of length at least one is there and is not nil:
\* "ok && len(v) > 0 && v[0] != nil"
HasElement(m, k) == k \in DOMAIN m /\ Len(m[k]) > 0 /\ m[k][1] # Nil

\* the connector kinds, in the order in which flatten visits them
KindOrder ==
  <<"amplitude", "custom_connector", "datadog", "dynatrace",
    "google_analytics", "honeycode", "infor_nexus", "marketo", "redshift",
    "sapo_data", "salesforce", "service_now", "singular", "slack",
    "snowflake", "trendmicro", "veeva", "zendesk">>
Kinds == {KindOrder[i] : i \in 1..Len(KindOrder)}
\* the kinds whose block declares no attribute
AttributeLessKinds ==
  {"amplitude", "google_analytics", "honeycode", "singular", "trendmicro"}
\* the kinds whose block declares instance_url (Required) and nothing else
InstanceUrlKinds ==
  {"datadog", "dynatrace", "infor_nexus", "marketo", "service_now", "slack",
   "veeva", "zendesk"}

\* flex.ExpandStringValueList, flex.ExpandStringValueMap: every element is
\* asserted to be a string and copied
ExpandStringValueList(l) == [i \in 1..Len(l) |-> l[i]]
ExpandStringValueMap(m) == [k \in DOMAIN m |-> m[k]]

\* datadog, dynatrace, infor_nexus, marketo, service_now, slack, veeva and
\* zendesk have one expand function each, all with this body
expandInstanceUrlConnectorProfileProperties(m) ==
  [InstanceUrl |-> awsString(m["instance_url"])]

expandRedshiftConnectorProfileProperties(m) ==
  [BucketName |-> awsString(m["bucket_name"]),
   ClusterIdentifier |-> awsString(m["cluster_identifier"]),
   RoleArn |-> awsString(m["role_arn"]),
   DataApiRoleArn |-> awsString(m["data_api_role_arn"]),
   DatabaseName |-> awsString(m["database_name"]),
   BucketPrefix |->
     IF m["bucket_prefix"] # "" THEN awsString(m["bucket_prefix"]) ELSE Nil,
   DatabaseUrl |->
     IF m["database_url"] # "" THEN awsString(m["database_url"]) ELSE Nil]

expandSalesforceConnectorProfileProperties(m) ==
  [InstanceUrl |->
     IF m["instance_url"] # "" THEN awsString(m["instance_url"]) ELSE Nil,
   IsSandboxEnvironment |-> m["is_sandbox_environment"],
   UsePrivateLinkForMetadataAndAuthorization |->
     m["use_privatelink_for_metadata_and_authorization"]]

expandOAuth2Properties(m) ==
  [OAuth2GrantType |-> m["oauth2_grant_type"],
   TokenUrl |-> awsString(m["token_url"]),
   TokenUrlCustomProperties |->
     IF DOMAIN m["token_url_custom_properties"] # {}
     THEN <<ExpandStringValueMap(m["token_url_custom_properties"])>>
     ELSE Nil]

expandCustomConnectorProfileProperties(m) ==
  [OAuth2Properties |->
     IF HasElement(m, "oauth2_properties")
     THEN <<expandOAuth2Properties(m["oauth2_properties"][1][1])>>
     ELSE Nil,
   ProfileProperties |->
     IF DOMAIN m["profile_properties"] # {}
     THEN <<ExpandStringValueMap(m["profile_properties"])>>
     ELSE Nil]

expandOAuthProperties(m) ==
  [AuthCodeUrl |-> awsString(m["auth_code_url"]),
   OAuthScopes |-> ExpandStringValueList(m["oauth_scopes"]),
   TokenUrl |-> awsString(m["token_url"])]

expandSAPODataConnectorProfileProperties(m) ==
  [ApplicationHostUrl |-> awsString(m["application_host_url"]),
   ApplicationServicePath |-> awsString(m["application_service_path"]),
   ClientNumber |-> awsString(m["client_number"]),
   PortNumber |-> awsInt32(m["port_number"]),
   LogonLanguage |->
     IF m["logon_language"] # "" THEN awsString(m["logon_language"]) ELSE Nil,
   OAuthProperties |->
     IF HasElement(m, "oauth_properties")
     THEN <<expandOAuthProperties(m["oauth_properties"][1][1])>>
     ELSE Nil,
   PrivateLinkServiceName |->
     IF m["private_link_service_name"] # ""
     THEN awsString(m["private_link_service_name"])
     ELSE Nil]

expandSnowflakeConnectorProfileProperties(m) ==
  [BucketName |-> awsString(m["bucket_name"]),
   Stage |-> awsString(m["stage"]),
   Warehouse |-> awsString(m["warehouse"]),
   AccountName |->
     IF m["account_name"] # "" THEN awsString(m["account_name"]) ELSE Nil,
   BucketPrefix |->
     IF m["bucket_prefix"] # "" THEN awsString(m["bucket_prefix"]) ELSE Nil,
   PrivateLinkServiceName |->
     IF m["private_link_service_name"] # ""
     THEN awsString(m["private_link_service_name"])
     ELSE Nil,
   Region |-> IF m["region"] # "" THEN awsString(m["region"]) ELSE Nil]

\* the request of an OAuth authorisation (connector profile credentials)
expandOAuthRequest(m) ==
  [AuthCode |-> IF m["auth_code"] # "" THEN awsString(m["auth_code"]) ELSE Nil,
   RedirectUri |->
     IF m["redirect_uri"] # "" THEN awsString(m["redirect_uri"]) ELSE Nil]

\* the expand function of a kind that has attributes
expandKind(k, m) ==
  CASE k \in InstanceUrlKinds -> expandInstanceUrlConnectorProfileProperties(m)
    [] k = "custom_connector" -> expandCustomConnectorProfileProperties(m)
    [] k = "redshift" -> expandRedshiftConnectorProfileProperties(m)
    [] k = "salesforce" -> expandSalesforceConnectorProfileProperties(m)
    [] k = "sapo_data" -> expandSAPODataConnectorProfileProperties(m)
    [] k = "snowflake" -> expandSnowflakeConnectorProfileProperties(m)

\* The request field of a kind is keyed by the name of the kind's block.
\* The element of an attribute-less kind is asserted to be a pointer to the
\* kind's properties type; the element is a map, so the assertion panics.
expandConnectorProfileProperties(m) ==
  IF \E k \in AttributeLessKinds : HasElement(m, k)
  THEN [panic |-> TRUE]
  ELSE [panic |-> FALSE,
        cpc |-> [k \in Kinds |->
                   IF HasElement(m, k) THEN <<expandKind(k, m[k][1][1])>> ELSE Nil]]

flattenRedshiftConnectorProfileProperties(properties) ==
  ListOf(("bucket_name" :> awsToString(properties.BucketName))
     @@ PutIf(properties.BucketPrefix # Nil,
              "bucket_prefix", awsToString(properties.BucketPrefix))
     @@ PutIf(properties.DatabaseUrl # Nil,
              "database_url", awsToString(properties.DatabaseUrl))
     @@ ("role_arn" :> awsToString(properties.RoleArn))
     @@ ("cluster_identifier" :> awsToString(properties.ClusterIdentifier))
     @@ ("data_api_role_arn" :> awsToString(properties.DataApiRoleArn))
     @@ ("database_name" :> awsToString(properties.DatabaseName)))

flattenOAuth2Properties(properties) ==
  ListOf([oauth2_grant_type |-> properties.OAuth2GrantType,
      token_url |-> awsToString(properties.TokenUrl),
      token_url_custom_properties |->
        IF properties.TokenUrlCustomProperties = Nil
        THEN EmptyMap
        ELSE properties.TokenUrlCustomProperties[1]])

flattenCustomConnectorProfileProperties(properties) ==
  ListOf(PutIf(properties.OAuth2Properties # Nil, "oauth2_properties",
           flattenOAuth2Properties(properties.OAuth2Properties[1]))
     @@ PutIf(properties.ProfileProperties # Nil, "profile_properties",
              properties.ProfileProperties[1]))

flattenSalesforceConnectorProfileProperties(properties) ==
  ListOf(PutIf(properties.InstanceUrl # Nil,
           "instance_url", awsToString(properties.InstanceUrl))
     @@ ("is_sandbox_environment" :> properties.IsSandboxEnvironment)
     @@ ("use_privatelink_for_metadata_and_authorization" :>
           properties.UsePrivateLinkForMetadataAndAuthorization))

flattenOAuthProperties(properties) ==
  ListOf([auth_code_url |-> awsToString(properties.AuthCodeUrl),
      oauth_scopes |-> properties.OAuthScopes,
      token_url |-> awsToString(properties.TokenUrl)])

flattenSAPODataConnectorProfileProperties(properties) ==
  ListOf(("application_host_url" :> awsToString(properties.ApplicationHostUrl))
     @@ ("application_service_path" :>
           awsToString(properties.ApplicationServicePath))
     @@ ("client_number" :> awsToString(properties.ClientNumber))
     @@ ("port_number" :> awsToInt32(properties.PortNumber))
     @@ PutIf(properties.LogonLanguage # Nil,
              "logon_language", awsToString(properties.LogonLanguage))
     @@ PutIf(properties.OAuthProperties # Nil, "oauth_properties",
              flattenOAuthProperties(properties.OAuthProperties[1]))
     @@ PutIf(properties.PrivateLinkServiceName # Nil,
              "private_link_service_name",
              awsToString(properties.PrivateLinkServiceName)))

\* private_link_service_name is not written
flattenSnowflakeConnectorProfileProperties(properties) ==
  ListOf(PutIf(properties.AccountName # Nil,
           "account_name", awsToString(properties.AccountName))
     @@ ("bucket_name" :> awsToString(properties.BucketName))
     @@ PutIf(properties.BucketPrefix # Nil,
              "bucket_prefix", awsToString(properties.BucketPrefix))
     @@ PutIf(properties.Region # Nil, "region", awsToString(properties.Region))
     @@ ("stage" :> awsToString(properties.Stage))
     @@ ("warehouse" :> awsToString(properties.Warehouse)))

\* the flatten function of a kind that has a function of its own
flattenKind(k, properties) ==
  CASE k = "custom_connector" -> flattenCustomConnectorProfileProperties(properties)
    [] k = "redshift" -> flattenRedshiftConnectorProfileProperties(properties)
    [] k = "salesforce" -> flattenSalesforceConnectorProfileProperties(properties)
    [] k = "sapo_data" -> flattenSAPODataConnectorProfileProperties(properties)
    [] k = "snowflake" -> flattenSnowflakeConnectorProfileProperties(properties)

\* The map m is made once and every block of an attribute-less kind and of
\* an instance_url kind is the list []any{m} of that one map: when the
\* function returns, each of these blocks shows what was written to m last.
SharedMap(cpp) ==
  LET writers == {i \in 1..Len(KindOrder) :
                    /\ KindOrder[i] \in InstanceUrlKinds
                    /\ cpp[KindOrder[i]] # Nil}
      last == CHOOSE i \in writers : \A j \in writers : j <= i
  IN  IF writers = {}
      THEN EmptyMap
      ELSE "instance_url" :> awsToString(cpp[KindOrder[last]][1].InstanceUrl)

flattenConnectorProfileProperties(cpp) ==
  ListOf([k \in {kind \in Kinds : cpp[kind] # Nil} |->
        IF k \in AttributeLessKinds \cup InstanceUrlKinds
        THEN ListOf(SharedMap(cpp))
        ELSE flattenKind(k, cpp[k][1])])

\* ---- the bounded inputs of expand and flatten ----

MinPort == 1
MaxPort == 65535

\* an Optional string attribute is not configured ("") or configured
OptionalStrings == {"", "x"}
InstanceUrls == {"https://a", "https://b"}
StringMaps == {EmptyMap, "k" :> "v"}

OAuth2PropertiesMaps ==
  [oauth2_grant_type : {"CLIENT_CREDENTIALS"},
   token_url : {"https://t"},
   token_url_custom_properties : StringMaps]
OAuthPropertiesMaps ==
  [auth_code_url : {"https://c"},
   oauth_scopes : {<<"s1", "s2">>},
   token_url : {"https://t"}]

\* the schema-valid attribute maps of the block of a kind: every declared
\* attribute is a key, a Required string is not empty
KindMaps(k) ==
  CASE k \in AttributeLessKinds -> {EmptyMap}
    [] k \in InstanceUrlKinds -> [instance_url : InstanceUrls]
    [] k = "custom_connector" ->
         [oauth2_properties :
            {<<>>} \cup {ListOf(o) : o \in OAuth2PropertiesMaps},
          profile_properties : StringMaps]
    [] k = "redshift" ->
         [bucket_name : {"b"}, role_arn : {"arn:r"},
          bucket_prefix : OptionalStrings,
          cluster_identifier : OptionalStrings,
          data_api_role_arn : OptionalStrings,
          database_name : OptionalStrings,
          database_url : OptionalStrings]
    [] k = "salesforce" ->
         [instance_url : {"", "https://a"},
          is_sandbox_environment : BOOLEAN,
          use_privatelink_for_metadata_and_authorization : BOOLEAN]
    [] k = "sapo_data" ->
         [application_host_url : {"https://h"},
          application_service_path : {"/p"},
          client_number : {"100"},
          port_number : {MinPort, MaxPort},
          logon_language : OptionalStrings,
          oauth_properties :
            {<<>>} \cup {ListOf(o) : o \in OAuthPropertiesMaps},
          private_link_service_name : OptionalStrings]
    [] k = "snowflake" ->
         [bucket_name : {"b"}, stage : {"s"}, warehouse : {"w"},
          account_name : OptionalStrings,
          bucket_prefix : OptionalStrings,
          private_link_service_name : OptionalStrings,
          region : OptionalStrings]

\* the block of a kind in the configuration: an empty list, a list that
\* holds nil (a block without content), or a list that holds an attribute map
KindLists(k) == {<<>>, <<Nil>>} \cup {ListOf(a) : a \in KindMaps(k)}

\* connector_profile_properties blocks: no kind, one kind, or two of the
\* instance_url kinds (the schema lets several kinds be configured)
PropertiesBlocks ==
  {EmptyMap}
    \cup UNION {{k :> l : l \in KindLists(k)} : k \in Kinds}
    \cup UNION {{(k1 :> ListOf(a1)) @@ (k2 :> ListOf(a2)) :
                   a1 \in KindMaps(k1), a2 \in KindMaps(k2)} :
                 <<k1, k2>> \in {p \in InstanceUrlKinds \X InstanceUrlKinds :
                                   p[1] # p[2]}}

OAuthRequests == [auth_code : OptionalStrings, redirect_uri : OptionalStrings]

\* the properties of a kind in a description of the remote system
KindProperties(k) ==
  IF k \in AttributeLessKinds
  THEN {EmptyMap}
  ELSE {[InstanceUrl |-> awsString(u)] : u \in InstanceUrls}

\* ConnectorProfileProperties of a description: no field, one field or two
\* fields set, among the attribute-less and the instance_url kinds
RemoteProperties ==
  LET shared == AttributeLessKinds \cup InstanceUrlKinds
  IN  {[k \in Kinds |-> Nil]}
        \cup UNION {{[k \in Kinds |-> IF k = k1 THEN <<p1>> ELSE Nil] :
                       p1 \in KindProperties(k1)} : k1 \in shared}
        \cup UNION {{[k \in Kinds |->
                        IF k = p[1] THEN <<p1>>
                        ELSE IF k = p[2] THEN <<p2>> ELSE Nil] :
                       p1 \in KindProperties(p[1]), p2 \in KindProperties(p[2])} :
                     p \in {q \in shared \X shared : q[1] # q[2]}}

\* ---- expand and flatten applied to the inputs ----

\* Either a configured block that Create or Update will expand and whose
\* request is then flattened as the description, or a description of the
\* remote system that Read will flatten.
InitFlex ==
  /\ res = "profile"
  /\ state = NoState
  /\ pre = NoState
  /\ diags = <<>>
  /\ peer = NoPeer
  /\ \/ /\ op = "expand"
        /\ pc = "expand"
        /\ plan \in [properties : PropertiesBlocks, oauth_request : OAuthRequests]
        /\ calls = <<>>
     \/ /\ op = "flatten"
        /\ pc = "flatten"
        /\ plan = NoPlan
        /\ calls \in {<<[ev |-> "description", cpp |-> c]>> : c \in RemoteProperties}

ExpandProperties ==
  /\ pc = "expand"
  /\ LET r == expandConnectorProfileProperties(plan.properties)
     IN  IF r.panic
         THEN /\ calls' = <<[ev |-> "panic"]>>
              /\ pc' = "panic"
         ELSE /\ calls' = <<[ev |-> "request",
                            cpp |-> r.cpc,
                            oauth |-> expandOAuthRequest(plan.oauth_request)]>>
              /\ pc' = "flatten"
  /\ UNCHANGED <<res, state, op, plan, pre, diags, peer>>

FlattenProperties ==
  /\ pc = "flatten"
  /\ state' = ("connector_profile_properties" :>
                 flattenConnectorProfileProperties(calls[1].cpp))
  /\ pc' = "done"
  /\ UNCHANGED <<res, op, plan, pre, calls, diags, peer>>

NextFlex == ExpandProperties \/ FlattenProperties

SpecFlex == InitFlex /\ [][NextFlex]_vars

\* ---- claims about expand and flatten ----

\* the zero value of an attribute: what the configuration holds for an
\* attribute that is not set
ZeroValue(a) ==
  CASE a = "port_number" -> 0
    [] a \in {"is_sandbox_environment",
              "use_privatelink_for_metadata_and_authorization"} -> FALSE
    [] a \in {"oauth_properties", "oauth2_properties"} -> <<>>
    [] a = "profile_properties" -> EmptyMap
    [] OTHER -> ""

\* the kinds of the block m whose list holds an attribute map
ConfiguredKinds(m) == {k \in DOMAIN m : HasElement(m, k)}
\* the flattened block is finished and came from an expanded configuration
RoundTripDone == op = "expand" /\ pc = "done"
\* the request of an expanded configuration is built
Expanded == op = "expand" /\ pc \in {"flatten", "done"}
\* the result map of flattenConnectorProfileProperties
Flattened == state["connector_profile_properties"][1][1]

\* C27: for a properties block that configures one kind with attributes,
\* flatten of expand yields a block of that kind alone in which every
\* attribute that the configuration sets to a non-empty value has the
\* configured value.
PropertiesRoundTrip ==
  (/\ RoundTripDone
   /\ Cardinality(DOMAIN plan.properties) = 1
   /\ ConfiguredKinds(plan.properties) \cap AttributeLessKinds = {})
    => /\ DOMAIN Flattened = ConfiguredKinds(plan.properties)
       /\ \A k \in ConfiguredKinds(plan.properties) :
            LET m == plan.properties[k][1][1]
                out == Flattened[k][1][1]
            IN  \A a \in DOMAIN m :
                  m[a] # ZeroValue(a) => (a \in DOMAIN out /\ out[a] = m[a])

\* C28: flatten emits a block for exactly the kinds whose field is not nil;
\* the block of an instance_url kind holds instance_url with the value of
\* that kind's InstanceUrl and nothing else, and the block of an
\* attribute-less kind is empty, also when two kinds are not nil.
FlattenOwnBlocks ==
  pc = "done" =>
    LET cpp == calls[1].cpp
    IN  /\ DOMAIN Flattened = {k \in Kinds : cpp[k] # Nil}
        /\ \A k \in DOMAIN Flattened \cap InstanceUrlKinds :
             /\ DOMAIN Flattened[k][1][1] = {"instance_url"}
             /\ Flattened[k][1][1]["instance_url"]
                  = awsToString(cpp[k][1].InstanceUrl)
        /\ \A k \in DOMAIN Flattened \cap AttributeLessKinds :
             DOMAIN Flattened[k][1][1] = {}

\* the string attributes the schema declares Optional, with the block they
\* belong to and the field of the request they are expanded to
OptionalStringFields ==
  {<<"redshift", "bucket_prefix", "BucketPrefix">>,
   <<"redshift", "cluster_identifier", "ClusterIdentifier">>,
   <<"redshift", "data_api_role_arn", "DataApiRoleArn">>,
   <<"redshift", "database_name", "DatabaseName">>,
   <<"redshift", "database_url", "DatabaseUrl">>,
   <<"salesforce", "instance_url", "InstanceUrl">>,
   <<"sapo_data", "logon_language", "LogonLanguage">>,
   <<"sapo_data", "private_link_service_name", "PrivateLinkServiceName">>,
   <<"snowflake", "account_name", "AccountName">>,
   <<"snowflake", "bucket_prefix", "BucketPrefix">>,
   <<"snowflake", "private_link_service_name", "PrivateLinkServiceName">>,
   <<"snowflake", "region", "Region">>}

\* C29: an Optional string attribute whose configured value is empty is nil
\* in the request, in the properties of every kind and in the OAuth request.
OptionalEmptyLeftNil ==
  Expanded =>
    /\ \A f \in OptionalStringFields :
         (/\ HasElement(plan.properties, f[1])
          /\ plan.properties[f[1]][1][1][f[2]] = "")
           => calls[1].cpp[f[1]][1][f[3]] = Nil
    /\ plan.oauth_request["auth_code"] = "" => calls[1].oauth.AuthCode = Nil
    /\ plan.oauth_request["redirect_uri"] = "" => calls[1].oauth.RedirectUri = Nil

\* C30: expand of a properties block in which every kind is absent, an empty
\* list, a list holding nil or a list holding an attribute map does not
\* panic, and the request field of every kind whose list holds an element
\* that is not nil is set.
ExpandReturnsNormally ==
  op = "expand" =>
    /\ pc # "panic"
    /\ Expanded =>
         \A k \in Kinds :
           HasElement(plan.properties, k) => calls[1].cpp[k] # Nil

====
